---- MODULE Spec2Model ----
(***************************************************************************)
(* Deployment-trace resolution engine of abiregistry-sdk.                  *)
(*                                                                         *)
(* The module holds one state machine per component:                       *)
(*   SpecCand  - candidate lists built from one parsed trace by            *)
(*               FoundryService.processBroadcastFile and by                *)
(*               BroadcastScannerService.processBroadcastFile              *)
(*   SpecHash  - calculateAbiHash                                          *)
(*   SpecParse - BroadcastParserService.parseBroadcastFile                 *)
(*   SpecFind  - BroadcastDiscoveryService.findBroadcastFiles              *)
(*   Spec      - FoundryService.push                                       *)
(***************************************************************************)
EXTENDS Integers, Sequences, FiniteSets, TLC

(***************************************************************************)
(* Bounds of the model.                                                    *)
(***************************************************************************)
\* longest transaction list of a trace in SpecCand
MaxTx == 3
\* longest additionalContracts list of a CALL transaction
MaxNested == 1
\* most entries of an ABI in SpecHash
MaxAbi == 2
\* most directory entries of a script's broadcast directory in SpecFind
MaxEntries == 2
\* most trace files under the broadcast root, all scripts together, in Spec
MaxFiles == 2

(***************************************************************************)
(* State.  Each specification moves the variables of one component and     *)
(* leaves the others at their idle values.                                 *)
(***************************************************************************)
VARIABLES
    \* SpecCand
    cpc,            \* "parsed" -> "foundry" -> "done"
    cTrace,         \* broadcast.transactions
    cDetected,      \* detectedProxies
    cDeployments,   \* FoundryService: deployments before filterDeployments
    cConfigMap,     \* FoundryService: contractConfigMap (no manual config)
    cContracts,     \* scanner: contracts
    cMappings,      \* scanner: proxyMappings
    \* SpecHash
    hKind,          \* "input", "changed" or "permuted"
    hAbi,           \* the ABI
    hAbi2,          \* the second ABI
    hHash,          \* calculateAbiHash(hAbi)
    hHash2,         \* calculateAbiHash(hAbi2)
    \* SpecParse
    pFile,          \* what the file at filePath holds
    pDone,          \* whether parseBroadcastFile has run
    pResult,        \* the outcome of parseBroadcastFile
    \* SpecFind
    fpc,            \* "start", "readFlat", "readdir", "entries" or "done"
    fFlat,          \* what <root>/<script>/<filename> is
    fDirReadable,   \* whether <root>/<script> can be listed
    fEntries,       \* the directory entries of <root>/<script>, in listing order
    fIdx,           \* the entry the loop is at
    fPaths,         \* broadcastPaths
    fCalls,         \* the file system calls made so far
    \* Spec
    pc,             \* where FoundryService.push is
    options,        \* FoundryPushOptions: scriptDir, yes, label
    config,         \* FoundryConfig: scripts, scriptDir
    filesLeft,      \* trace files under the broadcast root not yet discovered
    scriptsToProcess,
    sIdx,           \* push: the script the loop is at
    nPaths,         \* processScript: broadcastPaths.length
    bIdx,           \* processScript: the trace file the loop is at
    broadcast,      \* processBroadcastFile: the parsed trace
    deployments,    \* processBroadcastFile: deployments after filterDeployments
    contractConfigMap,
    dIdx,           \* processBroadcastFile: the deployment the loop is at
    fileAbis,       \* processBroadcastFile: abis
    scriptAbis,     \* processScript: allAbis
    allAbis,        \* push: allAbis
    pIdx,           \* pushToRegistry: the record the loop is at
    newCount,
    duplicateCount,
    calls,          \* the calls made to the injected dependencies, in order
    pushed,         \* the records handed to client.push, in order
    error,          \* the error push rejected with
    \* SpecScan
    kpc,            \* where scanBroadcastFolder is
    kFolder,        \* the broadcast folder: accessible, readable, entries
    kEntry,         \* scanBroadcastFolder: the entry the loop is at
    kDir,           \* the script directory scanScript is in
    kChain,         \* scanScript: the entry the loop is at
    kContracts,     \* scanScript: contracts
    kMappings,      \* scanScript: proxyMappings
    kCalls,         \* the parseBroadcastFile calls of this scanScript, in order
    kReturn,        \* what scanScript returned
    kScanned,       \* the script names scanScript was called with, in order
    kScripts,       \* scanBroadcastFolder: scripts
    \* SpecLoad
    lpc,            \* "start" -> "done"
    lOverrides,     \* loadConfig: overrides
    lEnv,           \* process.env once the .env files are loaded
    lFile,          \* what loadConfigFile returns
    lConfig,        \* what loadConfig returns
    \* SpecFilter
    tpc,            \* "start" -> "once" -> "twice"
    tDeployments,   \* filterDeployments: deployments
    tContractConfigs, \* filterDeployments: contractConfigs
    tFiltered,      \* what filterDeployments returned
    tRefiltered     \* what filterDeployments returned for tFiltered

candVars == <<cpc, cTrace, cDetected, cDeployments, cConfigMap, cContracts, cMappings>>

hashVars == <<hKind, hAbi, hAbi2, hHash, hHash2>>

parseVars == <<pFile, pDone, pResult>>

findVars == <<fpc, fFlat, fDirReadable, fEntries, fIdx, fPaths, fCalls>>

pushVars ==
    <<pc, options, config, filesLeft, scriptsToProcess, sIdx, nPaths, bIdx, broadcast,
      deployments, contractConfigMap, dIdx, fileAbis, scriptAbis, allAbis, pIdx,
      newCount, duplicateCount, calls, pushed, error>>

scanVars ==
    <<kpc, kFolder, kEntry, kDir, kChain, kContracts, kMappings, kCalls, kReturn, kScanned,
      kScripts>>

loadVars == <<lpc, lOverrides, lEnv, lFile, lConfig>>

filterVars == <<tpc, tDeployments, tContractConfigs, tFiltered, tRefiltered>>

vars == <<candVars, hashVars, parseVars, findVars, pushVars, scanVars, loadVars, filterVars>>

CandIdle ==
    /\ cpc = "idle"
    /\ cTrace = <<>>
    /\ cDetected = <<>>
    /\ cDeployments = <<>>
    /\ cConfigMap = <<>>
    /\ cContracts = <<>>
    /\ cMappings = <<>>

HashIdle ==
    /\ hKind = "idle"
    /\ hAbi = <<>>
    /\ hAbi2 = <<>>
    /\ hHash = <<>>
    /\ hHash2 = <<>>

ParseIdle ==
    /\ pFile = "idle"
    /\ pDone = FALSE
    /\ pResult = "idle"

FindIdle ==
    /\ fpc = "idle"
    /\ fFlat = "idle"
    /\ fDirReadable = FALSE
    /\ fEntries = <<>>
    /\ fIdx = 0
    /\ fPaths = <<>>
    /\ fCalls = <<>>

ScanIdle ==
    /\ kpc = "idle"
    /\ kFolder = <<>>
    /\ kEntry = 0
    /\ kDir = <<>>
    /\ kChain = 0
    /\ kContracts = <<>>
    /\ kMappings = <<>>
    /\ kCalls = <<>>
    /\ kReturn = <<>>
    /\ kScanned = <<>>
    /\ kScripts = <<>>

LoadIdle ==
    /\ lpc = "idle"
    /\ lOverrides = <<>>
    /\ lEnv = <<>>
    /\ lFile = <<>>
    /\ lConfig = <<>>

FilterIdle ==
    /\ tpc = "idle"
    /\ tDeployments = <<>>
    /\ tContractConfigs = <<>>
    /\ tFiltered = <<>>
    /\ tRefiltered = <<>>

PushIdle ==
    /\ pc = "idle"
    /\ options = <<>>
    /\ config = <<>>
    /\ filesLeft = 0
    /\ scriptsToProcess = <<>>
    /\ sIdx = 0
    /\ nPaths = 0
    /\ bIdx = 0
    /\ broadcast = <<>>
    /\ deployments = <<>>
    /\ contractConfigMap = <<>>
    /\ dIdx = 0
    /\ fileAbis = <<>>
    /\ scriptAbis = <<>>
    /\ allAbis = <<>>
    /\ pIdx = 0
    /\ newCount = 0
    /\ duplicateCount = 0
    /\ calls = <<>>
    /\ pushed = <<>>
    /\ error = "idle"

(***************************************************************************)
(* Values.                                                                 *)
(***************************************************************************)
\* JavaScript null (a contractName that is null)
Null == "null"

\* JavaScript truthiness of a string-or-null value
Truthy(v) == v # Null /\ v # ""

\* `${implementationName}Proxy`
ProxyName(implementationName) == implementationName \o "Proxy"

\* number of elements of a sequence that satisfy Test
Count(seq, Test(_)) == Cardinality({i \in 1..Len(seq) : Test(seq[i])})

\* the set of elements of a sequence
Range(seq) == {seq[i] : i \in 1..Len(seq)}

\* initCode.length < 500
ProxyInitCodeThreshold == 500

(***************************************************************************)
(* Traces: the shapes the models draw transactions from.  A transaction's  *)
(* address is its position (10 * index), a nested creation's address is    *)
(* the transaction's address plus its position in additionalContracts.     *)
(***************************************************************************)
ContractNames == {"A", "B", "AProxy"}

\* initCode lengths of nested creations: just below and at the threshold
InitCodeLens == {ProxyInitCodeThreshold - 1, ProxyInitCodeThreshold}

NestedShapes ==
    [contractName : {Null}, initCodeLen : InitCodeLens]
        \cup [contractName : {"P"}, initCodeLen : {ProxyInitCodeThreshold - 1}]

NestedLists == UNION {[1..n -> NestedShapes] : n \in 0..MaxNested}

TxShapes ==
    [transactionType : {"CREATE"}, contractName : ContractNames \cup {Null},
     nested : {<<>>}]
        \cup [transactionType : {"CALL"}, contractName : {Null}, nested : NestedLists]

MkTx(shape, i) ==
    [transactionType |-> shape.transactionType,
     contractName |-> shape.contractName,
     contractAddress |-> 10 * i,
     additionalContracts |->
        [k \in 1..Len(shape.nested) |->
            [contractName |-> shape.nested[k].contractName,
             address |-> 10 * i + k,
             initCodeLen |-> shape.nested[k].initCodeLen]]]

MkTrace(shapes) == [i \in 1..Len(shapes) |-> MkTx(shapes[i], i)]

Traces(maxLen) == {MkTrace(s) : s \in UNION {[1..n -> TxShapes] : n \in 0..maxLen}}

(***************************************************************************)
(* BroadcastParserService.detectProxies                                    *)
(***************************************************************************)
\* a mutation of IsProxyContract: the init code length is not looked at
IsProxyContractAnySize(contract) == ~Truthy(contract.contractName)

\* the filter of additionalContracts: no contract name and a small init code
IsProxyContract(contract) ==
    ~Truthy(contract.contractName) /\ contract.initCodeLen < ProxyInitCodeThreshold

\* a mutation of FindImplementation: the earliest CREATE with a name, or 0
FindImplementationEarliest(transactions, j) ==
    LET named == {n \in 1..j : /\ transactions[n].transactionType = "CREATE"
                               /\ Truthy(transactions[n].contractName)}
    IN IF named = {} THEN 0 ELSE CHOOSE n \in named : \A other \in named : n <= other

\* for (let j = i - 1; j >= 0; j--): the nearest preceding CREATE with a name, or 0
RECURSIVE FindImplementation(_, _)
FindImplementation(transactions, j) ==
    IF j < 1 THEN 0
    ELSE IF transactions[j].transactionType = "CREATE"
            /\ Truthy(transactions[j].contractName)
         THEN j
         ELSE FindImplementation(transactions, j - 1)

\* a mutation of ProxiesAt: only the first candidate of a CALL is mapped
ProxiesAtFirstOnly(transactions, i) ==
    LET tx == transactions[i]
        proxyContracts == SelectSeq(tx.additionalContracts, IsProxyContract)
        j == FindImplementation(transactions, i - 1)
    IN IF tx.transactionType = "CALL" /\ Len(tx.additionalContracts) > 0
          /\ Len(proxyContracts) > 0 /\ j > 0
       THEN <<[proxyAddress |-> proxyContracts[1].address,
               implementationName |-> transactions[j].contractName,
               deploymentIndex |-> i - 1]>>
       ELSE <<>>

\* the mappings pushed while the outer loop is at transaction i (1-based here,
\* deploymentIndex is the code's 0-based index)
ProxiesAt(transactions, i) ==
    LET tx == transactions[i]
        proxyContracts == SelectSeq(tx.additionalContracts, IsProxyContract)
        j == FindImplementation(transactions, i - 1)
    IN IF tx.transactionType = "CALL" /\ Len(tx.additionalContracts) > 0
          /\ Len(proxyContracts) > 0 /\ j > 0
       THEN [k \in 1..Len(proxyContracts) |->
                [proxyAddress |-> proxyContracts[k].address,
                 implementationName |-> transactions[j].contractName,
                 deploymentIndex |-> i - 1]]
       ELSE <<>>

RECURSIVE DetectFrom(_, _)
DetectFrom(transactions, i) ==
    IF i > Len(transactions) THEN <<>>
    ELSE ProxiesAt(transactions, i) \o DetectFrom(transactions, i + 1)

detectProxies(transactions) == DetectFrom(transactions, 1)

(***************************************************************************)
(* FoundryService.processBroadcastFile: the deployments list               *)
(***************************************************************************)
\* broadcast.transactions.filter(tx => tx.transactionType === 'CREATE')
IsCreate(tx) == tx.transactionType = "CREATE"

CreateDeployments(transactions) ==
    LET creates == SelectSeq(transactions, IsCreate)
    IN [i \in 1..Len(creates) |->
            [contractName |-> creates[i].contractName,
             contractAddress |-> creates[i].contractAddress]]

\* deployments.push({contractName: `${implementationName}Proxy`, contractAddress: proxyAddress})
ProxyDeployments(detectedProxies) ==
    [i \in 1..Len(detectedProxies) |->
        [contractName |-> ProxyName(detectedProxies[i].implementationName),
         contractAddress |-> detectedProxies[i].proxyAddress]]

\* the deployments list handed to filterDeployments
BuildDeployments(transactions, detectedProxies) ==
    IF Len(SelectSeq(transactions, IsCreate)) = 0 THEN <<>>
    ELSE CreateDeployments(transactions) \o ProxyDeployments(detectedProxies)

(***************************************************************************)
(* FoundryService.buildContractConfigMap.  A Map is a function from its    *)
(* keys; a contract config is [name, hasProxy, implementation].            *)
(***************************************************************************)
EmptyMap == [k \in {} |-> Null]

\* Map.set(key, value)
MapSet(map, key, value) ==
    [k \in DOMAIN map \cup {key} |-> IF k = key THEN value ELSE map[k]]

\* if (contractConfigs) for (const config of contractConfigs) map.set(config.name, config)
RECURSIVE AddManualConfigs(_, _, _)
AddManualConfigs(map, contractConfigs, i) ==
    IF i > Len(contractConfigs) THEN map
    ELSE AddManualConfigs(MapSet(map, contractConfigs[i].name, contractConfigs[i]),
                          contractConfigs, i + 1)

\* for (const proxyMapping of detectedProxies) map.set(proxyName, {name, proxy})
RECURSIVE AddDetectedProxies(_, _, _)
AddDetectedProxies(map, detectedProxies, i) ==
    IF i > Len(detectedProxies) THEN map
    ELSE LET impl == detectedProxies[i].implementationName
         IN AddDetectedProxies(
                MapSet(map, ProxyName(impl),
                       [name |-> ProxyName(impl), hasProxy |-> TRUE,
                        implementation |-> impl, interfaces |-> <<>>]),
                detectedProxies, i + 1)

\* contractConfigs is a sequence of configs (<<>> when the script has none)
buildContractConfigMap(contractConfigs, detectedProxies) ==
    AddDetectedProxies(AddManualConfigs(EmptyMap, contractConfigs, 1),
                       detectedProxies, 1)

(***************************************************************************)
(* BroadcastScannerService.processBroadcastFile.  `contracts` is a         *)
(* Set<string>, kept as the sequence of its elements in insertion order;   *)
(* `proxyMappings` is a Map<string, string>.                               *)
(***************************************************************************)
\* a mutation of SetAdd: a list that keeps duplicates
SetAddKeepDuplicates(set, value) == Append(set, value)

\* Set.add(value)
SetAdd(set, value) == IF value \in Range(set) THEN set ELSE Append(set, value)

\* new Set(detectedProxies.map(p => p.implementationName))
ImplementationsWithProxies(detectedProxies) ==
    {detectedProxies[i].implementationName : i \in 1..Len(detectedProxies)}

\* for (const tx of broadcast.transactions): the named CREATEs without a proxy
RECURSIVE ScanCreates(_, _, _, _)
ScanCreates(contracts, transactions, implementationsWithProxies, i) ==
    IF i > Len(transactions) THEN contracts
    ELSE LET tx == transactions[i]
             next == IF tx.transactionType = "CREATE" /\ Truthy(tx.contractName)
                        /\ tx.contractName \notin implementationsWithProxies
                     THEN SetAdd(contracts, tx.contractName)
                     ELSE contracts
         IN ScanCreates(next, transactions, implementationsWithProxies, i + 1)

\* a mutation of ScanProxyNames: the proxy names go into a list, not a set
ScanProxyNamesListed(contracts, detectedProxies, i) ==
    contracts \o [n \in 1..(Len(detectedProxies) - i + 1) |->
                    ProxyName(detectedProxies[i + n - 1].implementationName)]

\* for (const proxy of detectedProxies) contracts.add(proxyName)
RECURSIVE ScanProxyNames(_, _, _)
ScanProxyNames(contracts, detectedProxies, i) ==
    IF i > Len(detectedProxies) THEN contracts
    ELSE ScanProxyNames(
            SetAdd(contracts, ProxyName(detectedProxies[i].implementationName)),
            detectedProxies, i + 1)

\* for (const proxy of detectedProxies) proxyMappings.set(proxyName, implementationName)
RECURSIVE ScanProxyMappings(_, _, _)
ScanProxyMappings(mappings, detectedProxies, i) ==
    IF i > Len(detectedProxies) THEN mappings
    ELSE LET impl == detectedProxies[i].implementationName
         IN ScanProxyMappings(MapSet(mappings, ProxyName(impl), impl),
                              detectedProxies, i + 1)

\* the contracts set after a trace that parsed
ScanContracts(contracts, transactions) ==
    LET detectedProxies == detectProxies(transactions)
    IN ScanProxyNames(
            ScanCreates(contracts, transactions,
                        ImplementationsWithProxies(detectedProxies), 1),
            detectedProxies, 1)

\* the proxyMappings map after a trace that parsed
ScanMappings(mappings, transactions) ==
    ScanProxyMappings(mappings, detectProxies(transactions), 1)

(***************************************************************************)
(* SpecCand: one parsed trace, the candidate list FoundryService builds    *)
(* from it and the contract set the scanner builds from it.                *)
(***************************************************************************)
CandInit ==
    /\ cpc = "parsed"
    /\ cTrace \in Traces(MaxTx)
    /\ cDetected = <<>>
    /\ cDeployments = <<>>
    /\ cConfigMap = EmptyMap
    /\ cContracts = <<>>
    /\ cMappings = EmptyMap

\* FoundryService.processBroadcastFile, lines 172-200
CandFoundry ==
    /\ cpc = "parsed"
    /\ cpc' = "foundry"
    /\ cDetected' = detectProxies(cTrace)
    /\ cDeployments' = BuildDeployments(cTrace, detectProxies(cTrace))
    /\ cConfigMap' = buildContractConfigMap(<<>>, detectProxies(cTrace))
    /\ UNCHANGED <<cTrace, cContracts, cMappings, hashVars, parseVars, findVars, pushVars, scanVars, loadVars, filterVars>>

\* BroadcastScannerService.processBroadcastFile on fresh sets
CandScanner ==
    /\ cpc = "foundry"
    /\ cpc' = "done"
    /\ cContracts' = ScanContracts(<<>>, cTrace)
    /\ cMappings' = ScanMappings(EmptyMap, cTrace)
    /\ UNCHANGED <<cTrace, cDetected, cDeployments, cConfigMap, hashVars, parseVars, findVars, pushVars, scanVars, loadVars, filterVars>>

CandNext == CandFoundry \/ CandScanner

CandStart == CandInit /\ HashIdle /\ ParseIdle /\ FindIdle /\ PushIdle /\ ScanIdle /\ LoadIdle /\ FilterIdle

SpecCand == CandStart /\ [][CandNext]_vars

\* names of the deployments / contracts
NamedAs(name, seq) == Count(seq, LAMBDA d : d.contractName = name)

HasProxyConfig(map, name) == name \in DOMAIN map /\ map[name].hasProxy

DetectedImplementations == ImplementationsWithProxies(cDetected)

MappingsFor(impl) == Count(cDetected, LAMBDA p : p.implementationName = impl)

\* C1 as stated: with a mapping for I, neither list holds a standalone entry
\* named I and each holds exactly one entry named I + "Proxy".
C1_Original ==
    cpc = "done" =>
        \A impl \in DetectedImplementations :
            /\ ~(NamedAs(impl, cDeployments) > 0 /\ ~HasProxyConfig(cConfigMap, impl))
            /\ NamedAs(ProxyName(impl), cDeployments) = 1
            /\ ~(impl \in Range(cContracts) /\ impl \notin DOMAIN cMappings)
            /\ Count(cContracts, LAMBDA n : n = ProxyName(impl)) = 1

\* C1 amended: the scanner's set holds no standalone entry named I and holds
\* I + "Proxy" exactly once, mapped to I; FoundryService's list keeps the CREATE
\* entries named I and holds one I + "Proxy" entry per detected mapping for I
\* (beside any CREATE transaction of that name).
C1_Supersession ==
    cpc = "done" =>
        \A impl \in DetectedImplementations :
            /\ ~(impl \in Range(cContracts) /\ impl \notin DOMAIN cMappings)
            /\ Count(cContracts, LAMBDA n : n = ProxyName(impl)) = 1
            /\ ProxyName(impl) \in DOMAIN cMappings
            /\ cMappings[ProxyName(impl)] = impl
            /\ Count(cTrace, LAMBDA tx : IsCreate(tx) /\ tx.contractName = impl) >= 1
            /\ NamedAs(impl, cDeployments)
                    = Count(cTrace, LAMBDA tx : IsCreate(tx) /\ tx.contractName = impl)
                      + Count(cDetected, LAMBDA p : ProxyName(p.implementationName) = impl)
            /\ MappingsFor(impl) >= 1
            /\ NamedAs(ProxyName(impl), cDeployments)
                    = MappingsFor(impl)
                      + Count(cTrace, LAMBDA tx : IsCreate(tx)
                                                  /\ tx.contractName = ProxyName(impl))

\* a trace where two proxies front the same implementation
C1_Witness ==
    /\ cpc = "done"
    /\ \E impl \in DetectedImplementations :
            /\ MappingsFor(impl) >= 2
            /\ NamedAs(ProxyName(impl), cDeployments) >= 2
            /\ ProxyName(impl) \in Range(cContracts)

(***************************************************************************)
(* calculateAbiHash                                                        *)
(*                                                                         *)
(* An ABI entry is a function from its own property names to their values. *)
(***************************************************************************)
AbiEntries ==
    { [type |-> "function", name |-> "f", stateMutability |-> "view", inputs |-> "uint256"],
      [type |-> "function", name |-> "f", stateMutability |-> "view", inputs |-> "address"],
      [type |-> "function", name |-> "f", stateMutability |-> "nonpayable", inputs |-> "uint256"],
      [type |-> "function", name |-> "g", stateMutability |-> "view", inputs |-> "uint256"],
      [type |-> "event", name |-> "f", inputs |-> "uint256"],
      [type |-> "constructor", stateMutability |-> "nonpayable", inputs |-> "uint256"] }

Abis(maxLen) == UNION {[1..n -> AbiEntries] : n \in 0..maxLen}

\* the collation order String.prototype.localeCompare gives the strings of AbiEntries
LocaleRank(str) ==
    CASE str = "" -> 0
      [] str = "constructor" -> 1
      [] str = "event" -> 2
      [] str = "f" -> 3
      [] str = "function" -> 4
      [] str = "g" -> 5

\* a.localeCompare(b): negative, zero or positive
LocaleCompare(a, b) == LocaleRank(a) - LocaleRank(b)

\* a.name || ''
NameOrEmpty(entry) == IF "name" \in DOMAIN entry THEN entry.name ELSE ""

\* the comparator handed to sort
CompareEntries(a, b) ==
    IF a.type # b.type THEN LocaleCompare(a.type, b.type)
    ELSE LocaleCompare(NameOrEmpty(a), NameOrEmpty(b))

\* Array.prototype.sort is stable: an entry goes behind every entry that does
\* not compare greater
RECURSIVE InsertEntry(_, _)
InsertEntry(sorted, entry) ==
    IF sorted = <<>> THEN <<entry>>
    ELSE IF CompareEntries(Head(sorted), entry) <= 0
         THEN <<Head(sorted)>> \o InsertEntry(Tail(sorted), entry)
         ELSE <<entry>> \o sorted

RECURSIVE SortFrom(_, _, _)
SortFrom(sorted, abi, i) ==
    IF i > Len(abi) THEN sorted
    ELSE SortFrom(InsertEntry(sorted, abi[i]), abi, i + 1)

\* [...abi].sort(comparator)
SortAbi(abi) == SortFrom(<<>>, abi, 1)

\* a mutation of ReplacerKeys: the property names of the entries themselves
ReplacerKeysOfEntries(sortedAbi) == <<"inputs", "name", "stateMutability", "type">>

\* Object.keys(sortedAbi).sort(): the keys of the ARRAY, its indices "0", "1", ...
ReplacerKeys(sortedAbi) == [i \in 1..Len(sortedAbi) |-> ToString(i - 1)]

\* JSON.stringify of one object under an array replacer: the properties named in
\* the replacer that the object has, in the replacer's order
RECURSIVE StringifyObject(_, _, _)
StringifyObject(object, keys, i) ==
    IF i > Len(keys) THEN <<>>
    ELSE (IF keys[i] \in DOMAIN object THEN <<<<keys[i], object[keys[i]]>>>> ELSE <<>>)
            \o StringifyObject(object, keys, i + 1)

\* JSON.stringify(array, replacer): every element of the array, each filtered
JsonStringify(array, keys) ==
    [i \in 1..Len(array) |-> StringifyObject(array[i], keys, 1)]

\* createHash('sha256').update(s).digest('hex'): distinct strings give distinct
\* digests (collision resistance), equal strings the same digest
Sha256Hex(str) == <<"sha256", str>>

calculateAbiHash(abi) ==
    LET sortedAbi == SortAbi(abi)
        abiString == JsonStringify(sortedAbi, ReplacerKeys(sortedAbi))
    IN <<"0x">> \o Sha256Hex(abiString)

(***************************************************************************)
(* SpecHash: an ABI, and the hash of it and of a second ABI that is either *)
(* the first with one entry added, removed or replaced, or a permutation   *)
(* of it.                                                                  *)
(***************************************************************************)
RemoveAt(seq, i) == SubSeq(seq, 1, i - 1) \o SubSeq(seq, i + 1, Len(seq))

InsertAt(seq, i, e) == SubSeq(seq, 1, i - 1) \o <<e>> \o SubSeq(seq, i, Len(seq))

\* the ABIs that differ from abi by one added, removed or changed entry
OneEntryChanges(abi) ==
    {InsertAt(abi, i, e) : i \in 1..(Len(abi) + 1), e \in AbiEntries}
        \cup {RemoveAt(abi, i) : i \in 1..Len(abi)}
        \cup UNION {{[abi EXCEPT ![i] = e] : e \in AbiEntries \ {abi[i]}} : i \in 1..Len(abi)}

Permutation(n) == {p \in [1..n -> 1..n] : \A i, j \in 1..n : p[i] = p[j] => i = j}

HashInit ==
    /\ hKind = "input"
    /\ hAbi \in Abis(MaxAbi)
    /\ hAbi2 = <<>>
    /\ hHash = <<>>
    /\ hHash2 = <<>>

HashChanged ==
    /\ hKind = "input"
    /\ \E abi2 \in OneEntryChanges(hAbi) :
            /\ hAbi2' = abi2
            /\ hHash2' = calculateAbiHash(abi2)
    /\ hHash' = calculateAbiHash(hAbi)
    /\ hKind' = "changed"
    /\ UNCHANGED <<hAbi, candVars, parseVars, findVars, pushVars, scanVars, loadVars, filterVars>>

HashPermuted ==
    /\ hKind = "input"
    /\ \E p \in Permutation(Len(hAbi)) :
            /\ hAbi2' = [i \in 1..Len(hAbi) |-> hAbi[p[i]]]
            /\ hHash2' = calculateAbiHash([i \in 1..Len(hAbi) |-> hAbi[p[i]]])
    /\ hHash' = calculateAbiHash(hAbi)
    /\ hKind' = "permuted"
    /\ UNCHANGED <<hAbi, candVars, parseVars, findVars, pushVars, scanVars, loadVars, filterVars>>

HashNext == HashChanged \/ HashPermuted

HashStart == HashInit /\ CandIdle /\ ParseIdle /\ FindIdle /\ PushIdle /\ ScanIdle /\ LoadIdle /\ FilterIdle

SpecHash == HashStart /\ [][HashNext]_vars

\* C2: an ABI that differs by one added, removed or changed entry has another hash.
C2_HashSensitivity == hKind = "changed" => hHash # hHash2

\* C3: every permutation of an ABI has the hash of the ABI.
C3_OrderIndependence == hKind = "permuted" => hHash = hHash2

\* a permutation that swaps two entries of the same type and name (overloads)
C3_Witness ==
    /\ hKind = "permuted"
    /\ hAbi # hAbi2
    /\ \E i, j \in 1..Len(hAbi) :
            /\ i # j
            /\ hAbi[i] # hAbi[j]
            /\ CompareEntries(hAbi[i], hAbi[j]) = 0

(***************************************************************************)
(* BroadcastParserService.parseBroadcastFile                               *)
(*                                                                         *)
(* A JSON value is [t, n, s, b]: t its JavaScript type ("undefined" for a  *)
(* property the object does not have), n the value of a number (twice the  *)
(* number, so that 3 stands for 1.5) or the length of an array, s the      *)
(* value of a string, b the value of a boolean.                            *)
(***************************************************************************)
JsUndefined == [t |-> "undefined", n |-> 0, s |-> "", b |-> FALSE]

JsNull == [t |-> "null", n |-> 0, s |-> "", b |-> FALSE]

JsNumber(twice) == [t |-> "number", n |-> twice, s |-> "", b |-> FALSE]

JsString(str) == [t |-> "string", n |-> 0, s |-> str, b |-> FALSE]

JsBoolean(bool) == [t |-> "boolean", n |-> 0, s |-> "", b |-> bool]

\* an array, by its length
JsArray(len) == [t |-> "array", n |-> len, s |-> "", b |-> FALSE]

JsObject == [t |-> "object", n |-> 0, s |-> "", b |-> FALSE]

\* ToBoolean
JsTruthy(value) ==
    CASE value.t = "undefined" -> FALSE
      [] value.t = "null" -> FALSE
      [] value.t = "number" -> value.n # 0
      [] value.t = "string" -> value.s # ""
      [] value.t = "boolean" -> value.b
      [] OTHER -> TRUE

\* Array.isArray
IsArray(value) == value.t = "array"

TransactionsValues ==
    {JsUndefined, JsNull, JsArray(0), JsArray(2), JsString("x"), JsString(""),
     JsObject, JsNumber(0), JsBoolean(TRUE)}

ChainValues ==
    {JsUndefined, JsNull, JsNumber(0), JsNumber(2), JsNumber(-2), JsNumber(3),
     JsNumber(62674), JsString("1"), JsString("abc"), JsString(""),
     JsBoolean(TRUE), JsBoolean(FALSE)}

\* what a file can hold: nothing readable, text that is no JSON, a JSON value
\* that is no object, or an object with its transactions and chain properties
FileContents ==
    [kind : {"unreadable", "not-json", "json-null", "json-number"},
     transactions : {JsUndefined}, chain : {JsUndefined}]
        \cup [kind : {"object"}, transactions : TransactionsValues, chain : ChainValues]

Returned(json) == [ok |-> TRUE, broadcast |-> json, error |-> ""]

Thrown(message) == [ok |-> FALSE, broadcast |-> JsUndefined, error |-> message]

\* a mutation of ChainMissing: the chain is never checked
ChainNeverMissing(json) == FALSE

\* !json.chain
ChainMissing(json) == ~JsTruthy(json.chain)

\* !json.transactions || !Array.isArray(json.transactions)
TransactionsMissing(json) ==
    ~JsTruthy(json.transactions) \/ ~IsArray(json.transactions)

parseBroadcastFile(file) ==
    CASE file.kind = "unreadable" -> Thrown("ENOENT: no such file or directory")
      [] file.kind = "not-json" -> Thrown("SyntaxError: Unexpected token in JSON")
      [] file.kind = "json-null" ->
            Thrown("TypeError: Cannot read properties of null (reading 'transactions')")
      [] OTHER ->
            IF TransactionsMissing(file)
            THEN Thrown("Invalid broadcast file: missing transactions array")
            ELSE IF ChainMissing(file)
                 THEN Thrown("Invalid broadcast file: missing chain ID")
                 ELSE Returned(file)

(***************************************************************************)
(* SpecParse: one file, parsed once.                                       *)
(***************************************************************************)
ParseInit ==
    /\ pFile \in FileContents
    /\ pDone = FALSE
    /\ pResult = "none"

ParseFile ==
    /\ ~pDone
    /\ pDone' = TRUE
    /\ pResult' = parseBroadcastFile(pFile)
    /\ UNCHANGED <<pFile, candVars, hashVars, findVars, pushVars, scanVars, loadVars, filterVars>>

ParseNext == ParseFile

ParseStart == ParseInit /\ CandIdle /\ HashIdle /\ FindIdle /\ PushIdle /\ ScanIdle /\ LoadIdle /\ FilterIdle

SpecParse == ParseStart /\ [][ParseNext]_vars

\* a chain id that is a positive integer
IsPositiveInteger(value) == value.t = "number" /\ value.n > 0 /\ value.n % 2 = 0

\* C9 as stated: a trace is returned only when transactions is an array and the
\* chain id is a positive integer; every other object throws an error that names
\* the missing field.
C9_Original ==
    (pDone /\ pFile.kind = "object") =>
        IF IsArray(pFile.transactions) /\ IsPositiveInteger(pFile.chain)
        THEN pResult.ok
        ELSE /\ ~pResult.ok
             /\ pResult.error \in {"Invalid broadcast file: missing transactions array",
                                   "Invalid broadcast file: missing chain ID"}

\* C9 amended: a trace is returned exactly when transactions is an array and the
\* chain property is truthy (so a negative, fractional or non-numeric chain id is
\* accepted); otherwise the error names transactions when it is no array, and the
\* chain id when transactions is an array and the chain property is missing, null,
\* 0, "" or false.
C9_ParserValidation ==
    (pDone /\ pFile.kind = "object") =>
        /\ pResult.ok <=> (IsArray(pFile.transactions) /\ JsTruthy(pFile.chain))
        /\ pResult.ok => pResult.broadcast = pFile
        /\ ~IsArray(pFile.transactions) =>
                pResult.error = "Invalid broadcast file: missing transactions array"
        /\ (IsArray(pFile.transactions) /\ ~JsTruthy(pFile.chain)) =>
                pResult.error = "Invalid broadcast file: missing chain ID"

\* an empty transactions array with a negative chain id parses
C9_Witness ==
    /\ pDone
    /\ pFile.kind = "object"
    /\ pFile.transactions = JsArray(0)
    /\ pFile.chain = JsNumber(-2)
    /\ pResult.ok

(***************************************************************************)
(* BroadcastDiscoveryService.findBroadcastFiles (the version that filters  *)
(* out the localhost chain)                                                *)
(***************************************************************************)
\* the excluded development chain
LocalhostChainId == 31337

\* what the flat file can be: absent, present but unreadable, present with text
\* that is no JSON, present with the JSON value null, or present with a JSON
\* object whose chain property is the given number (0: no chain property)
FlatFiles ==
    [kind : {"absent", "unreadable", "not-json", "json-null"}, chain : {0}]
        \cup [kind : {"object"}, chain : {0, 1, LocalhostChainId}]

EntryNames == {"1", "31337", "031337", "abc"}

\* /^\d+$/.test(name)
IsNumericName(name) == name \in {"1", "31337", "031337"}

\* parseInt(name, 10)
ParseInt(name) ==
    CASE name = "1" -> 1
      [] name = "31337" -> 31337
      [] name = "031337" -> 31337
      [] OTHER -> -1

DirEntries == [name : EntryNames, isDirectory : BOOLEAN, hasFile : BOOLEAN]

\* the listings of a directory: no two entries share a name
Listings ==
    {l \in UNION {[1..n -> DirEntries] : n \in 0..MaxEntries} :
        \A i, j \in 1..Len(l) : l[i].name = l[j].name => i = j}

\* this.fs.join(broadcastDir, filename)
DirectPath == "run-latest.json"

\* this.fs.join(broadcastDir, entry.name, filename)
ChainIdPath(name) == name \o "/run-latest.json"

FsCall(op, path) == [op |-> op, path |-> path]

\* a mutation of IsLocalhost: no chain is skipped
IsLocalhostNever(chainId) == FALSE

\* chainId === 31337
IsLocalhost(chainId) == chainId = LocalhostChainId

FindInit ==
    /\ fpc = "start"
    /\ fFlat \in FlatFiles
    /\ fDirReadable \in BOOLEAN
    /\ fEntries \in Listings
    /\ fIdx = 0
    /\ fPaths = <<>>
    /\ fCalls = <<>>

\* await this.fs.access(directPath)
FindAccessFlat ==
    /\ fpc = "start"
    /\ fCalls' = Append(fCalls, FsCall("access", DirectPath))
    /\ fpc' = IF fFlat.kind = "absent" THEN "readdir" ELSE "readFlat"
    /\ UNCHANGED <<fFlat, fDirReadable, fEntries, fIdx, fPaths, candVars, hashVars, parseVars, pushVars, scanVars, loadVars, filterVars>>

\* readFile, JSON.parse and the chain test of the flat file; anything thrown
\* lands in the catch block that searches the subdirectories
FindReadFlat ==
    /\ fpc = "readFlat"
    /\ fCalls' = Append(fCalls, FsCall("readFile", DirectPath))
    /\ IF fFlat.kind \in {"unreadable", "not-json", "json-null"}
       THEN /\ fpc' = "readdir"
            /\ UNCHANGED fPaths
       ELSE /\ fpc' = "done"
            /\ fPaths' = IF ~IsLocalhost(fFlat.chain)
                          THEN Append(fPaths, DirectPath)
                          ELSE fPaths
    /\ UNCHANGED <<fFlat, fDirReadable, fEntries, fIdx, candVars, hashVars, parseVars, pushVars, scanVars, loadVars, filterVars>>

\* await this.fs.readdir(broadcastDir, { withFileTypes: true })
FindReaddir ==
    /\ fpc = "readdir"
    /\ fCalls' = Append(fCalls, FsCall("readdir", ""))
    /\ fpc' = IF fDirReadable THEN "entries" ELSE "done"
    /\ fIdx' = 1
    /\ UNCHANGED <<fFlat, fDirReadable, fEntries, fPaths, candVars, hashVars, parseVars, pushVars, scanVars, loadVars, filterVars>>

\* one iteration of for (const entry of entries)
FindEntry ==
    /\ fpc = "entries"
    /\ fIdx <= Len(fEntries)
    /\ LET entry == fEntries[fIdx]
           probed == entry.isDirectory /\ IsNumericName(entry.name)
                        /\ ~IsLocalhost(ParseInt(entry.name))
       IN /\ fCalls' = IF probed
                        THEN Append(fCalls, FsCall("access", ChainIdPath(entry.name)))
                        ELSE fCalls
          /\ fPaths' = IF probed /\ entry.hasFile
                        THEN Append(fPaths, ChainIdPath(entry.name))
                        ELSE fPaths
    /\ fIdx' = fIdx + 1
    /\ UNCHANGED <<fpc, fFlat, fDirReadable, fEntries, candVars, hashVars, parseVars, pushVars, scanVars, loadVars, filterVars>>

\* the loop is over: return broadcastPaths
FindReturn ==
    /\ fpc = "entries"
    /\ fIdx > Len(fEntries)
    /\ fpc' = "done"
    /\ UNCHANGED <<fFlat, fDirReadable, fEntries, fIdx, fPaths, fCalls, candVars, hashVars, parseVars, pushVars, scanVars, loadVars, filterVars>>

FindNext == FindAccessFlat \/ FindReadFlat \/ FindReaddir \/ FindEntry \/ FindReturn

FindStart == FindInit /\ CandIdle /\ HashIdle /\ ParseIdle /\ PushIdle /\ ScanIdle /\ LoadIdle /\ FilterIdle

SpecFind == FindStart /\ [][FindNext]_vars

Called(op, path) == \E i \in 1..Len(fCalls) : fCalls[i] = FsCall(op, path)

Listed == \E i \in 1..Len(fCalls) : fCalls[i].op = "readdir"

\* C7: whenever the flat path exists, the subdirectories are never listed and no
\* per-chain path is returned, whatever the flat file holds.
C7_LocatorExclusivity ==
    fFlat.kind # "absent" =>
        /\ ~Listed
        /\ \A i \in 1..Len(fPaths) : fPaths[i] = DirectPath

\* C8 as stated: a trace file of chain 31337 is never read, in the flat layout or
\* in the per-chain layout.
C8_Original ==
    /\ (fFlat.kind = "object" /\ IsLocalhost(fFlat.chain)) =>
            ~Called("readFile", DirectPath)
    /\ \A i \in 1..Len(fEntries) :
            ParseInt(fEntries[i].name) = LocalhostChainId =>
                /\ ~Called("access", ChainIdPath(fEntries[i].name))
                /\ ~Called("readFile", ChainIdPath(fEntries[i].name))

\* C8 amended: in the per-chain layout the trace of a subdirectory whose name
\* parses to 31337 is never accessed, never read and never returned; no per-chain
\* trace is read by discovery at all; in the flat layout the flat file is read by
\* discovery itself, and when its chain is 31337 the result is empty and the
\* subdirectories are not listed.
C8_DevChainExcluded ==
    /\ \A i \in 1..Len(fEntries) :
            ParseInt(fEntries[i].name) = LocalhostChainId =>
                /\ ~Called("access", ChainIdPath(fEntries[i].name))
                /\ ~Called("readFile", ChainIdPath(fEntries[i].name))
                /\ ChainIdPath(fEntries[i].name) \notin Range(fPaths)
    /\ \A i \in 1..Len(fCalls) : fCalls[i].op = "readFile" => fCalls[i].path = DirectPath
    /\ (fpc = "done" /\ fFlat.kind = "object" /\ IsLocalhost(fFlat.chain)) =>
            /\ Called("readFile", DirectPath)
            /\ fPaths = <<>>
            /\ ~Listed

\* a per-chain layout with a 31337 subdirectory that holds a trace, beside
\* another chain whose trace is returned
C8_Witness ==
    /\ fpc = "done"
    /\ fFlat.kind = "absent"
    /\ \E i \in 1..Len(fEntries) :
            /\ fEntries[i].name = "31337"
            /\ fEntries[i].isDirectory
            /\ fEntries[i].hasFile
    /\ ChainIdPath("1") \in Range(fPaths)

(***************************************************************************)
(* FoundryService.push: configuration, trace files and artifacts           *)
(***************************************************************************)
\* a contract selector of the configuration: without proxy, with
\* proxy.implementation, and with proxy.implementation and proxy.interfaces
\* (interfaces is <<>> where the selector has none)
Selector(name) ==
    [name |-> name, hasProxy |-> FALSE, implementation |-> Null, interfaces |-> <<>>]

ProxySelector(name, implementation) ==
    [name |-> name, hasProxy |-> TRUE, implementation |-> implementation,
     interfaces |-> <<>>]

FacetSelector(name, implementation, interfaces) ==
    [name |-> name, hasProxy |-> TRUE, implementation |-> implementation,
     interfaces |-> interfaces]

\* the `contracts` of a script's configuration (<<>>: none configured)
ContractLists ==
    { <<>>,
      <<Selector("A")>>,
      <<Selector("B")>>,
      <<ProxySelector("AProxy", "B")>>,
      <<Selector("A"), ProxySelector("AProxy", "B")>>,
      <<ProxySelector("B", "A")>>,
      <<FacetSelector("B", "A", <<"F">>)>> }

ScriptConfig(name, contracts) == [name |-> name, contracts |-> contracts]

\* foundryConfig.scripts
ScriptsConfigs ==
    {<<>>}
        \cup {<<ScriptConfig("S1", c)>> : c \in ContractLists}
        \cup {<<ScriptConfig("S1", c), ScriptConfig("S2", <<>>)>> :
                c \in {<<>>, <<Selector("B")>>}}
        \cup {<<ScriptConfig("S2", <<>>), ScriptConfig("S1", <<Selector("A")>>)>>}

\* the timestamp of a trace without a timestamp field (undefined)
NoTimestamp == -1

CreateShape(name) == [transactionType |-> "CREATE", contractName |-> name, nested |-> <<>>]

\* a CALL whose additionalContracts holds one unnamed creation with a small init code
ProxyCallShape ==
    [transactionType |-> "CALL", contractName |-> Null,
     nested |-> <<[contractName |-> Null, initCodeLen |-> ProxyInitCodeThreshold - 1]>>]

Broadcast(shapes, chain, timestamp) ==
    [transactions |-> MkTrace(shapes), chain |-> chain, timestamp |-> timestamp]

\* what parseBroadcastFile returns for the trace files of Spec
PushBroadcasts ==
    { Broadcast(<<>>, 1, 1700),
      Broadcast(<<CreateShape("A")>>, 1, 1700),
      Broadcast(<<CreateShape("A"), CreateShape("B")>>, 137, 0),
      Broadcast(<<CreateShape("A"), ProxyCallShape>>, 1, 1701),
      Broadcast(<<CreateShape(Null), CreateShape("B")>>, 5, NoTimestamp),
      Broadcast(<<CreateShape("A"), ProxyCallShape, CreateShape("AProxy"), ProxyCallShape>>,
                1, 1704) }

\* what abiLoader.loadContractAbi returns for an artifact it finds
ArtifactAbi(contractName) ==
    IF contractName = "A"
    THEN <<[type |-> "function", name |-> "f", stateMutability |-> "view", inputs |-> "uint256"]>>
    ELSE IF contractName = "B"
    THEN <<[type |-> "function", name |-> "g", stateMutability |-> "view", inputs |-> "uint256"],
           [type |-> "event", name |-> "f", inputs |-> "uint256"]>>
    ELSE IF contractName = "F"
    THEN <<[type |-> "function", name |-> "f", stateMutability |-> "nonpayable", inputs |-> "address"],
           [type |-> "function", name |-> "h", stateMutability |-> "view", inputs |-> "uint256"]>>
    ELSE <<[type |-> "constructor", stateMutability |-> "nonpayable", inputs |-> "uint256"]>>

\* the errors of the dependencies and of push
ScriptDirRequired == "Script directory is required"

NoAbisToPush == "No ABIs to push. Check your deploy scripts and configuration."

ParserError == "Invalid broadcast file"

LoaderError(contractName) == "Could not find ABI file for " \o contractName

RegistryError == "registry error"

PushFailed(message) == "Failed to push ABIs: " \o message

\* one call to an injected dependency
Call(op, script, name, target, result) ==
    [op |-> op, script |-> script, name |-> name, target |-> target, result |-> result]

(***************************************************************************)
(* FoundryService: the functions push is made of                           *)
(***************************************************************************)
\* a mutation of getScriptsToProcess: the configured scripts come before --script
getScriptsToProcessConfigFirst(opts, foundryConfig) ==
    IF Len(foundryConfig.scripts) > 0
    THEN [threw |-> FALSE,
          value |-> [i \in 1..Len(foundryConfig.scripts) |-> foundryConfig.scripts[i].name]]
    ELSE IF Truthy(opts.scriptDir)
    THEN [threw |-> FALSE, value |-> <<opts.scriptDir>>]
    ELSE IF Truthy(foundryConfig.scriptDir)
    THEN [threw |-> FALSE, value |-> <<foundryConfig.scriptDir>>]
    ELSE [threw |-> TRUE, value |-> <<>>]

\* getScriptsToProcess: the list of scripts, or the error it throws
getScriptsToProcess(opts, foundryConfig) ==
    IF Truthy(opts.scriptDir)
    THEN [threw |-> FALSE, value |-> <<opts.scriptDir>>]
    ELSE IF Len(foundryConfig.scripts) > 0
    THEN [threw |-> FALSE,
          value |-> [i \in 1..Len(foundryConfig.scripts) |-> foundryConfig.scripts[i].name]]
    ELSE IF Truthy(foundryConfig.scriptDir)
    THEN [threw |-> FALSE, value |-> <<foundryConfig.scriptDir>>]
    ELSE [threw |-> TRUE, value |-> <<>>]

\* foundryConfig.scripts?.find(s => s.name === scriptDir)?.contracts
RECURSIVE FindContracts(_, _, _)
FindContracts(scripts, scriptDir, i) ==
    IF i > Len(scripts) THEN <<>>
    ELSE IF scripts[i].name = scriptDir THEN scripts[i].contracts
    ELSE FindContracts(scripts, scriptDir, i + 1)

ContractConfigs(foundryConfig, scriptDir) == FindContracts(foundryConfig.scripts, scriptDir, 1)

\* contractConfigs.map(c => c.name)
AllowedNames(contractConfigs) == {contractConfigs[i].name : i \in 1..Len(contractConfigs)}

\* tx.contractName ?? ''
NameOrBlank(contractName) == IF contractName = Null THEN "" ELSE contractName

\* a mutation of filterDeployments: nothing is filtered out
filterDeploymentsKeepAll(candidates, contractConfigs) == candidates

\* a mutation of FilterByName: the first match is left out
FilterByNameButFirst(candidates, allowedNames) ==
    LET matches == SelectSeq(candidates,
                             LAMBDA tx : NameOrBlank(tx.contractName) \in allowedNames)
    IN IF Len(matches) > 1 THEN Tail(matches) ELSE matches

\* deployments.filter((tx) => allowedNames.includes(tx.contractName ?? ''))
FilterByName(candidates, allowedNames) ==
    SelectSeq(candidates, LAMBDA tx : NameOrBlank(tx.contractName) \in allowedNames)

filterDeployments(candidates, contractConfigs) ==
    IF Len(contractConfigs) > 0
    THEN FilterByName(candidates, AllowedNames(contractConfigs))
    ELSE candidates

\* processBroadcastFile up to the loop: the deployments the loop runs over
FileDeployments(parsed, contractConfigs) ==
    LET detectedProxies == detectProxies(parsed.transactions)
        candidates == BuildDeployments(parsed.transactions, detectedProxies)
    IN IF Len(candidates) = 0 THEN <<>>
       ELSE filterDeployments(candidates, contractConfigs)

\* networks[chainId] || `chain-${chainId}`
getNetworkFromChainId(chainId) ==
    CASE chainId = 1 -> "mainnet"
      [] chainId = 11155111 -> "sepolia"
      [] chainId = 137 -> "polygon"
      [] chainId = 80001 -> "mumbai"
      [] chainId = 10 -> "optimism"
      [] chainId = 42161 -> "arbitrum"
      [] chainId = 8453 -> "base"
      [] chainId = 31337 -> "localhost"
      [] OTHER -> "chain-" \o ToString(chainId)

\* broadcast.timestamp ? new Date(broadcast.timestamp) : new Date()
DeployedAt(parsed) ==
    IF parsed.timestamp # NoTimestamp /\ parsed.timestamp # 0
    THEN [clock |-> FALSE, ms |-> parsed.timestamp]
    ELSE [clock |-> TRUE, ms |-> 0]

\* processDeployment: contractToLoad
ContractToLoad(deployment, configMap) ==
    IF deployment.contractName \in DOMAIN configMap
          /\ configMap[deployment.contractName].hasProxy
    THEN configMap[deployment.contractName].implementation
    ELSE deployment.contractName

\* processDeployment: the record returned
PushAbiInput(deployment, abi, parsed, label) ==
    [contractName |-> deployment.contractName,
     network |-> getNetworkFromChainId(parsed.chain),
     label |-> label,
     address |-> deployment.contractAddress,
     chainId |-> parsed.chain,
     deployedAt |-> DeployedAt(parsed),
     abiHash |-> calculateAbiHash(abi),
     abi |-> abi]

\* a mutation of PushAll: the new records are put in front
PushAllInFront(list, abis) == abis \o list

\* list.push(...abis)
PushAll(list, abis) == list \o abis

\* a mutation of ParseErrorPropagates: the error is swallowed, the file is tried on
ParseErrorSwallowed(message) == [pc |-> "file", error |-> "none"]

\* processBroadcastFile, processScript and push have no catch around
\* parseBroadcastFile: its error is the error push rejects with
ParseErrorPropagates(message) == [pc |-> "rejected", error |-> message]

\* a mutation of CatchLoadError: the error is swallowed and the loop goes on
CatchLoadErrorSwallowed(message) == [pc |-> "deployment", error |-> "none"]

\* processDeployment's catch block: throw error
CatchLoadError(message) == [pc |-> "rejected", error |-> message]

(***************************************************************************)
(* Spec: one invocation of FoundryService.push.  The dependencies          *)
(* (discovery, parser, loader, confirm, client) answer as they may: each   *)
(* answer is chosen when the call is made.                                 *)
(***************************************************************************)
otherVars == <<candVars, hashVars, parseVars, findVars, scanVars, loadVars, filterVars>>

pushInputs == <<options, config>>

fileVars == <<broadcast, deployments, contractConfigMap, dIdx, fileAbis>>

registryVars == <<pIdx, newCount, duplicateCount, pushed>>

\* the script the loop of push is at
ScriptDir == scriptsToProcess[sIdx]

\* the invocations: without --script every configuration of scripts, and the
\* legacy scriptDir beside no script and beside one; with --script S1 beside
\* no script, beside S1 and S2, and beside an allow-list for S1, each with and
\* without the legacy scriptDir
PushInputs ==
    ([scriptDir : {Null}] \X [scripts : ScriptsConfigs, scriptDir : {Null}])
        \cup ([scriptDir : {Null}]
                \X [scripts : {<<>>, <<ScriptConfig("S1", <<>>)>>}, scriptDir : {"S2"}])
        \cup ([scriptDir : {"S1"}]
                \X [scripts : {<<>>,
                               <<ScriptConfig("S1", <<>>), ScriptConfig("S2", <<>>)>>,
                               <<ScriptConfig("S2", <<>>),
                                 ScriptConfig("S1", <<Selector("A")>>)>>},
                    scriptDir : {Null, "S2"}])

Init ==
    /\ pc = "start"
    /\ \E input \in PushInputs :
        /\ options \in [scriptDir : {input[1].scriptDir}, yes : BOOLEAN,
                         label : {Null, "v1"}]
        /\ config = input[2]
    /\ filesLeft = MaxFiles
    /\ scriptsToProcess = <<>>
    /\ sIdx = 0
    /\ nPaths = 0
    /\ bIdx = 0
    /\ broadcast = <<>>
    /\ deployments = <<>>
    /\ contractConfigMap = EmptyMap
    /\ dIdx = 0
    /\ fileAbis = <<>>
    /\ scriptAbis = <<>>
    /\ allAbis = <<>>
    /\ pIdx = 0
    /\ newCount = 0
    /\ duplicateCount = 0
    /\ calls = <<>>
    /\ pushed = <<>>
    /\ error = "none"
    /\ CandIdle /\ HashIdle /\ ParseIdle /\ FindIdle /\ ScanIdle /\ LoadIdle /\ FilterIdle

\* push: const scriptsToProcess = this.getScriptsToProcess(options, foundryConfig)
GetScripts ==
    /\ pc = "start"
    /\ LET scripts == getScriptsToProcess(options, config)
       IN IF scripts.threw
          THEN /\ pc' = "rejected"
               /\ error' = ScriptDirRequired
               /\ UNCHANGED <<scriptsToProcess, sIdx>>
          ELSE /\ pc' = "script"
               /\ scriptsToProcess' = scripts.value
               /\ sIdx' = 1
               /\ UNCHANGED error
    /\ UNCHANGED <<pushInputs, filesLeft, nPaths, bIdx, fileVars, scriptAbis, allAbis,
                   registryVars, calls, otherVars>>

\* processScript: findBroadcastFiles, and the early return when it finds nothing
ProcessScript ==
    /\ pc = "script"
    /\ sIdx <= Len(scriptsToProcess)
    /\ \E n \in 0..filesLeft :
        /\ filesLeft' = filesLeft - n
        /\ calls' = Append(calls, Call("findBroadcastFiles", ScriptDir, "", "",
                                       IF n = 0 THEN "empty" ELSE "paths"))
        /\ IF n = 0
           THEN /\ sIdx' = sIdx + 1
                /\ UNCHANGED <<pc, nPaths, bIdx, scriptAbis>>
           ELSE /\ pc' = "file"
                /\ nPaths' = n
                /\ bIdx' = 1
                /\ scriptAbis' = <<>>
                /\ UNCHANGED sIdx
    /\ UNCHANGED <<pushInputs, scriptsToProcess, fileVars, allAbis, registryVars, error,
                   otherVars>>

\* processBroadcastFile up to its loop: parse, detect, build the map, filter
ParseBroadcast ==
    /\ pc = "file"
    /\ bIdx <= nPaths
    /\ \/ /\ calls' = Append(calls, Call("parseBroadcastFile", ScriptDir, "", "", "thrown"))
          /\ pc' = ParseErrorPropagates(ParserError).pc
          /\ error' = ParseErrorPropagates(ParserError).error
          /\ UNCHANGED <<bIdx, fileVars>>
       \/ \E parsed \in PushBroadcasts :
            LET contractConfigs == ContractConfigs(config, ScriptDir)
                filtered == FileDeployments(parsed, contractConfigs)
            IN /\ calls' = Append(calls, Call("parseBroadcastFile", ScriptDir, "", "", "ok"))
               /\ broadcast' = parsed
               /\ contractConfigMap' =
                    IF Len(SelectSeq(parsed.transactions, IsCreate)) = 0
                    THEN EmptyMap
                    ELSE buildContractConfigMap(contractConfigs,
                                                detectProxies(parsed.transactions))
               /\ deployments' = filtered
               /\ fileAbis' = <<>>
               /\ IF Len(filtered) = 0
                  THEN /\ bIdx' = bIdx + 1
                       /\ dIdx' = 0
                       /\ UNCHANGED pc
                  ELSE /\ pc' = "deployment"
                       /\ dIdx' = 1
                       /\ UNCHANGED bIdx
               /\ UNCHANGED error
    /\ UNCHANGED <<pushInputs, filesLeft, scriptsToProcess, sIdx, nPaths, scriptAbis,
                   allAbis, registryVars, otherVars>>

\* processDeployment for the deployment the loop is at
ProcessDeployment ==
    /\ pc = "deployment"
    /\ dIdx <= Len(deployments)
    /\ LET deployment == deployments[dIdx]
           contractToLoad == ContractToLoad(deployment, contractConfigMap)
       IN IF ~Truthy(deployment.contractName)
          THEN /\ dIdx' = dIdx + 1
               /\ UNCHANGED <<pc, fileAbis, calls, error>>
          ELSE \/ /\ calls' = Append(calls, Call("loadContractAbi", ScriptDir,
                                                 deployment.contractName, contractToLoad, "ok"))
                  /\ fileAbis' = Append(fileAbis,
                                        PushAbiInput(deployment, ArtifactAbi(contractToLoad),
                                                     broadcast, options.label))
                  /\ dIdx' = dIdx + 1
                  /\ UNCHANGED <<pc, error>>
               \/ /\ calls' = Append(calls, Call("loadContractAbi", ScriptDir,
                                                 deployment.contractName, contractToLoad,
                                                 "thrown"))
                  /\ pc' = CatchLoadError(LoaderError(contractToLoad)).pc
                  /\ error' = CatchLoadError(LoaderError(contractToLoad)).error
                  /\ UNCHANGED <<dIdx, fileAbis>>
    /\ UNCHANGED <<pushInputs, filesLeft, scriptsToProcess, sIdx, nPaths, bIdx, broadcast,
                   deployments, contractConfigMap, scriptAbis, allAbis, registryVars,
                   otherVars>>

\* processBroadcastFile returns abis (its local list is gone); processScript:
\* allAbis.push(...abis)
FileDone ==
    /\ pc = "deployment"
    /\ dIdx > Len(deployments)
    /\ scriptAbis' = PushAll(scriptAbis, fileAbis)
    /\ fileAbis' = <<>>
    /\ bIdx' = bIdx + 1
    /\ pc' = "file"
    /\ UNCHANGED <<pushInputs, filesLeft, scriptsToProcess, sIdx, nPaths, broadcast,
                   deployments, contractConfigMap, dIdx, allAbis, registryVars, calls, error,
                   otherVars>>

\* a mutation of ScriptDone: the records of a script are pushed as soon as the
\* script is done
ScriptDoneThenPush ==
    /\ pc = "file"
    /\ bIdx > nPaths
    /\ allAbis' = PushAll(allAbis, scriptAbis)
    /\ scriptAbis' = <<>>
    /\ sIdx' = sIdx + 1
    /\ pc' = IF Len(allAbis') > 0 THEN "push" ELSE "script"
    /\ pIdx' = 1
    /\ UNCHANGED <<pushInputs, filesLeft, scriptsToProcess, nPaths, bIdx, fileVars,
                   newCount, duplicateCount, pushed, calls, error, otherVars>>

\* processScript returns allAbis (its local list is gone); push:
\* allAbis.push(...abis)
ScriptDone ==
    /\ pc = "file"
    /\ bIdx > nPaths
    /\ allAbis' = PushAll(allAbis, scriptAbis)
    /\ scriptAbis' = <<>>
    /\ sIdx' = sIdx + 1
    /\ pc' = "script"
    /\ UNCHANGED <<pushInputs, filesLeft, scriptsToProcess, nPaths, bIdx, fileVars,
                   registryVars, calls, error, otherVars>>

\* push after the loop: if (allAbis.length === 0) throw; showConfirmationTable
CheckAbis ==
    /\ pc = "script"
    /\ sIdx > Len(scriptsToProcess)
    /\ IF Len(allAbis) = 0
       THEN /\ pc' = "rejected"
            /\ error' = NoAbisToPush
            /\ UNCHANGED calls
       ELSE /\ pc' = "confirm"
            /\ calls' = Append(calls, Call("displayTable", "", "", "", "ok"))
            /\ UNCHANGED error
    /\ UNCHANGED <<pushInputs, filesLeft, scriptsToProcess, sIdx, nPaths, bIdx, fileVars,
                   scriptAbis, allAbis, registryVars, otherVars>>

\* a mutation of AsksConfirmation: the gate is never entered
AsksConfirmationNever(opts) == FALSE

\* if (!options.yes)
AsksConfirmation(opts) == ~opts.yes

\* push: if (!options.yes) { confirmed = await confirm(...); if (!confirmed) process.exit(0) }
Confirm ==
    /\ pc = "confirm"
    /\ IF ~AsksConfirmation(options)
       THEN /\ pc' = "push"
            /\ pIdx' = 1
            /\ UNCHANGED calls
       ELSE \E confirmed \in BOOLEAN :
            /\ calls' = Append(calls, Call("confirm", "", "", "",
                                           IF confirmed THEN "true" ELSE "false"))
            /\ IF confirmed
               THEN pc' = "push" /\ pIdx' = 1
               ELSE pc' = "exited" /\ UNCHANGED pIdx
    /\ UNCHANGED <<pushInputs, filesLeft, scriptsToProcess, sIdx, nPaths, bIdx, fileVars,
                   scriptAbis, allAbis, newCount, duplicateCount, pushed, error, otherVars>>

\* a mutation of CatchPushError: the failure is swallowed and the loop goes on
CatchPushErrorSwallowed(message) == [pc |-> "push", error |-> "none"]

\* pushToRegistry's catch block: throw new Error(`Failed to push ABIs: ${message}`)
CatchPushError(message) == [pc |-> "rejected", error |-> PushFailed(message)]

\* a mutation of PushRecord: a record whose abiHash was already handed over is
\* counted as a duplicate without calling client.push
PushRecordOncePerHash ==
    /\ pc = "push"
    /\ pIdx <= Len(allAbis)
    /\ IF \E k \in 1..Len(pushed) : pushed[k].abiHash = allAbis[pIdx].abiHash
       THEN /\ pIdx' = pIdx + 1
            /\ duplicateCount' = duplicateCount + 1
            /\ UNCHANGED <<pc, error, calls, pushed, newCount>>
       ELSE \E result \in {"new", "duplicate", "thrown"} :
            /\ calls' = Append(calls, Call("push", "", allAbis[pIdx].contractName, "",
                                           IF result = "thrown" THEN "thrown" ELSE "ok"))
            /\ pushed' = Append(pushed, allAbis[pIdx])
            /\ IF result = "thrown"
               THEN /\ pc' = "rejected"
                    /\ error' = PushFailed(RegistryError)
                    /\ UNCHANGED <<pIdx, newCount, duplicateCount>>
               ELSE /\ pIdx' = pIdx + 1
                    /\ newCount' = IF result = "new" THEN newCount + 1 ELSE newCount
                    /\ duplicateCount' =
                            IF result = "duplicate" THEN duplicateCount + 1
                            ELSE duplicateCount
                    /\ UNCHANGED <<pc, error>>
    /\ UNCHANGED <<pushInputs, filesLeft, scriptsToProcess, sIdx, nPaths, bIdx, fileVars,
                   scriptAbis, allAbis, otherVars>>

\* pushToRegistry: one turn of the loop
PushRecord ==
    /\ pc = "push"
    /\ pIdx <= Len(allAbis)
    /\ \E result \in {"new", "duplicate", "thrown"} :
        /\ calls' = Append(calls, Call("push", "", allAbis[pIdx].contractName, "",
                                       IF result = "thrown" THEN "thrown" ELSE "ok"))
        /\ pushed' = Append(pushed, allAbis[pIdx])
        /\ IF result = "thrown"
           THEN /\ pc' = CatchPushError(RegistryError).pc
                /\ error' = CatchPushError(RegistryError).error
                /\ UNCHANGED <<pIdx, newCount, duplicateCount>>
           ELSE /\ pIdx' = pIdx + 1
                /\ newCount' = IF result = "new" THEN newCount + 1 ELSE newCount
                /\ duplicateCount' =
                        IF result = "duplicate" THEN duplicateCount + 1 ELSE duplicateCount
                /\ UNCHANGED <<pc, error>>
    /\ UNCHANGED <<pushInputs, filesLeft, scriptsToProcess, sIdx, nPaths, bIdx, fileVars,
                   scriptAbis, allAbis, otherVars>>

\* pushToRegistry: the loop is over, push resolves
PushComplete ==
    /\ pc = "push"
    /\ pIdx > Len(allAbis)
    /\ pc' = "resolved"
    /\ UNCHANGED <<pushInputs, filesLeft, scriptsToProcess, sIdx, nPaths, bIdx, fileVars,
                   scriptAbis, allAbis, registryVars, calls, error, otherVars>>

Next ==
    \/ GetScripts
    \/ ProcessScript
    \/ ParseBroadcast
    \/ ProcessDeployment
    \/ FileDone
    \/ ScriptDone
    \/ CheckAbis
    \/ Confirm
    \/ PushRecord
    \/ PushComplete

Spec == Init /\ [][Next]_vars

(***************************************************************************)
(* Properties of FoundryService.push                                       *)
(***************************************************************************)
\* the selectors the configuration of the script at hand lists
ScriptContracts == ContractConfigs(config, ScriptDir)

\* the detector's mappings for the trace file at hand
DetectedHere == detectProxies(broadcast.transactions)

\* the name is an auto-detected proxy name of the trace file at hand
AutoDetectedName(name) ==
    \E i \in 1..Len(DetectedHere) : ProxyName(DetectedHere[i].implementationName) = name

Terminal == pc \in {"resolved", "rejected", "exited"}

LoadCalls == {i \in 1..Len(calls) : calls[i].op = "loadContractAbi"}

PushCalls == {i \in 1..Len(calls) : calls[i].op = "push"}

\* C4: a record whose name is an auto-detected proxy name and for which the
\* script's configuration holds a selector of that name with its own
\* proxy.implementation J carries the ABI of J.
C4_ExplicitConfigWins ==
    pc = "deployment" =>
        \A i \in 1..Len(fileAbis) : \A k \in 1..Len(ScriptContracts) :
            (/\ ScriptContracts[k].name = fileAbis[i].contractName
             /\ ScriptContracts[k].hasProxy
             /\ AutoDetectedName(fileAbis[i].contractName))
                => fileAbis[i].abi = ArtifactAbi(ScriptContracts[k].implementation)

\* C5: when every script has been processed and no record has resulted, push
\* ends by resolving (it does not reject) and nothing was handed to client.push.
C5_NothingToPublish ==
    (/\ Terminal
     /\ Len(scriptsToProcess) > 0
     /\ sIdx > Len(scriptsToProcess)
     /\ Len(allAbis) = 0)
        => pc = "resolved" /\ pushed = <<>>

\* C6: once a call to the loader has thrown, push has rejected with the loader's
\* error, no dependency is called after the failed load, and client.push is
\* never called, whatever records had been resolved before.
C6_NoPartialPublication ==
    \A i \in LoadCalls :
        calls[i].result = "thrown" =>
            /\ pc = "rejected"
            /\ error = LoaderError(calls[i].target)
            /\ i = Len(calls)
            /\ PushCalls = {}
            /\ pushed = <<>>

\* a load fails after records were resolved from earlier candidates of the
\* same trace file and from an earlier trace file
C6_Witness ==
    /\ pc = "rejected"
    /\ Len(calls) > 0
    /\ calls[Len(calls)].op = "loadContractAbi"
    /\ calls[Len(calls)].result = "thrown"
    /\ Len(fileAbis) > 0
    /\ Len(scriptAbis) > 0

\* the loader is called only for candidates named in the allow-list of their
\* script, and the records of the script at hand carry only names of it
AllowListHolds ==
    /\ \A i \in LoadCalls :
            LET contractConfigs == ContractConfigs(config, calls[i].script)
            IN Len(contractConfigs) > 0 => calls[i].name \in AllowedNames(contractConfigs)
    /\ (pc \in {"file", "deployment"} /\ Len(ScriptContracts) > 0) =>
            \A r \in Range(scriptAbis \o fileAbis) :
                r.contractName \in AllowedNames(ScriptContracts)

\* a trace file is parsed and the allow-list names none of its candidates: the
\* file contributes no record, nothing is loaded, push does not reject and the
\* loop is at the next trace file
EmptyFilterStep ==
    (/\ pc = "file"
     /\ Len(calls') = Len(calls) + 1
     /\ calls'[Len(calls')].result = "ok"
     /\ Len(ScriptContracts) > 0
     /\ \A d \in Range(BuildDeployments(broadcast'.transactions,
                                        detectProxies(broadcast'.transactions))) :
            NameOrBlank(d.contractName) \notin AllowedNames(ScriptContracts))
        => /\ pc' = "file"
           /\ bIdx' = bIdx + 1
           /\ error' = "none"
           /\ fileAbis' = <<>>
           /\ scriptAbis' = scriptAbis
           /\ allAbis' = allAbis
           /\ sIdx' = sIdx

\* C10: with an allow-list configured for a script, the loader is called only
\* for candidates named in it and the records of the script carry only names of
\* it; when the filter leaves no candidate of a trace file, the file contributes
\* no record, push does not reject and the loop over the trace files goes on.
C10_AllowListFilter == []AllowListHolds /\ [][EmptyFilterStep]_vars

\* an allow-list is configured and names none of the candidates of the trace
\* file just parsed, and the script has a trace file left
C10_Witness ==
    /\ pc = "file"
    /\ Len(ScriptContracts) > 0
    /\ Len(calls) > 0
    /\ calls[Len(calls)].op = "parseBroadcastFile"
    /\ calls[Len(calls)].result = "ok"
    /\ Len(BuildDeployments(broadcast.transactions, DetectedHere)) > 0
    /\ FileDeployments(broadcast, ScriptContracts) = <<>>
    /\ bIdx = 2
    /\ nPaths = 2

(***************************************************************************)
(* Resolution of one candidate                                             *)
(***************************************************************************)
\* the position in `calls` of the parse of the trace file at hand
LastParse ==
    LET parses == {i \in 1..Len(calls) : calls[i].op = "parseBroadcastFile"}
    IN CHOOSE i \in parses : \A j \in parses : j <= i

\* the loader calls made for the trace file at hand, in order
FileLoads == SelectSeq(SubSeq(calls, LastParse + 1, Len(calls)),
                       LAMBDA c : c.op = "loadContractAbi")

\* the configured selectors of the script at hand that name the candidate and
\* carry proxy.implementation
ProxySelectorsOf(name) ==
    {k \in 1..Len(ScriptContracts) :
        ScriptContracts[k].name = name /\ ScriptContracts[k].hasProxy}

\* C11: for a candidate whose configured selector carries proxy.implementation
\* the loader is called with the implementation and not with the candidate's
\* name, and the record keeps the candidate's name and address and carries the
\* implementation's ABI; a candidate with no proxy configuration (configured or
\* auto-detected) gets its own artifact; one load is made per record.
C11_ProxyResolution ==
    pc = "deployment" =>
        /\ Len(FileLoads) = Len(fileAbis)
        /\ \A i \in 1..Len(fileAbis) :
            LET record == fileAbis[i]
                load == FileLoads[i]
            IN /\ load.name = record.contractName
               /\ \E d \in Range(deployments) :
                    d.contractName = record.contractName /\ d.contractAddress = record.address
               /\ \A k \in ProxySelectorsOf(record.contractName) :
                    /\ load.target = ScriptContracts[k].implementation
                    /\ load.target # record.contractName
                    /\ record.abi = ArtifactAbi(ScriptContracts[k].implementation)
               /\ (ProxySelectorsOf(record.contractName) = {}
                        /\ ~AutoDetectedName(record.contractName))
                    => /\ load.target = record.contractName
                       /\ record.abi = ArtifactAbi(record.contractName)

\* the (type, name) identity of an ABI entry
EntryKey(entry) == <<entry.type, IF "name" \in DOMAIN entry THEN entry.name ELSE "">>

\* the entries in order, without those whose (type, name) occurred earlier
RECURSIVE FirstOccurrences(_, _, _)
FirstOccurrences(kept, entries, i) ==
    IF i > Len(entries) THEN kept
    ELSE IF \E j \in 1..Len(kept) : EntryKey(kept[j]) = EntryKey(entries[i])
         THEN FirstOccurrences(kept, entries, i + 1)
         ELSE FirstOccurrences(Append(kept, entries[i]), entries, i + 1)

\* the ABIs of the implementation and of the interfaces, one after the other
RECURSIVE FacetEntries(_, _)
FacetEntries(interfaces, i) ==
    IF i > Len(interfaces) THEN <<>>
    ELSE ArtifactAbi(interfaces[i]) \o FacetEntries(interfaces, i + 1)

MergedAbi(selector) ==
    FirstOccurrences(<<>>, ArtifactAbi(selector.implementation)
                                \o FacetEntries(selector.interfaces, 1), 1)

\* C12: the record of a candidate whose configured selector carries
\* proxy.implementation and proxy.interfaces = [F1..Fn] holds the
\* implementation's entries followed by the interfaces' entries in order, first
\* occurrence of each (type, name) kept, and the loader was called 1 + n times
\* for it.
C12_FacetMerge ==
    pc = "deployment" =>
        \A i \in 1..Len(fileAbis) : \A k \in ProxySelectorsOf(fileAbis[i].contractName) :
            Len(ScriptContracts[k].interfaces) > 0 =>
                /\ fileAbis[i].abi = MergedAbi(ScriptContracts[k])
                /\ Len(SelectSeq(FileLoads, LAMBDA c : c.name = fileAbis[i].contractName))
                      = (1 + Len(ScriptContracts[k].interfaces))
                            * Len(SelectSeq(fileAbis,
                                  LAMBDA r : r.contractName = fileAbis[i].contractName))

(***************************************************************************)
(* The records                                                             *)
(***************************************************************************)
\* C13: every record of the trace file at hand carries the trace's chain id,
\* the network label of that chain id, the caller's label, the hash of its own
\* ABI, and as deployedAt the trace's timestamp whenever the trace has a
\* timestamp field (the clock only when it has none); the records handed to
\* client.push are the collected ones.
C13_RecordContents ==
    /\ pc = "deployment" =>
        \A i \in 1..Len(fileAbis) :
            LET record == fileAbis[i]
            IN /\ record.chainId = broadcast.chain
               /\ record.network = getNetworkFromChainId(broadcast.chain)
               /\ record.label = options.label
               /\ record.abiHash = calculateAbiHash(record.abi)
               /\ broadcast.timestamp # NoTimestamp =>
                    record.deployedAt = [clock |-> FALSE, ms |-> broadcast.timestamp]
               /\ broadcast.timestamp = NoTimestamp => record.deployedAt.clock
    /\ pc \in {"push", "resolved"} => pushed = SubSeq(allAbis, 1, Len(pushed))

(***************************************************************************)
(* The confirmation gate                                                   *)
(***************************************************************************)
ConfirmCalls == {i \in 1..Len(calls) : calls[i].op = "confirm"}

\* C14: client.push is called only after the confirmation callback returned
\* true, unless options.yes is set, and then the callback is never invoked;
\* once the user has declined, nothing is handed to client.push.
C14_ConfirmationGate ==
    /\ options.yes => ConfirmCalls = {}
    /\ ~options.yes =>
            \A i \in PushCalls : \E j \in ConfirmCalls : j < i /\ calls[j].result = "true"
    /\ (\E j \in ConfirmCalls : calls[j].result = "false") =>
            /\ PushCalls = {}
            /\ pushed = <<>>
            /\ pc = "exited"
    /\ Len(pushed) = Cardinality(PushCalls)

\* without options.yes, the user has confirmed and a record has been pushed
C14_Witness ==
    /\ ~options.yes
    /\ ConfirmCalls # {}
    /\ PushCalls # {}
    /\ Len(pushed) > 0

(***************************************************************************)
(* Implementation and proxy                                                *)
(***************************************************************************)
\* the CREATE transactions of the trace file at hand that carry a name
NamedCreates ==
    SelectSeq(broadcast.transactions, LAMBDA tx : IsCreate(tx) /\ Truthy(tx.contractName))

\* every deployment of the trace file at hand has been processed
FileResolved == pc = "deployment" /\ dIdx > Len(deployments)

\* C15: without an allow-list, a trace file with k named CREATE transactions and
\* m detected mappings yields k + m records; for every mapping for I there is a
\* record named I + "Proxy" at the proxy address and a record named I at the
\* address of each CREATE named I, all with the ABI loaded for I; a run that
\* resolves has pushed every collected record.
C15_ImplementationAndProxy ==
    /\ (FileResolved /\ Len(ScriptContracts) = 0) =>
        /\ Len(fileAbis) = Len(NamedCreates) + Len(DetectedHere)
        /\ \A m \in 1..Len(DetectedHere) :
            LET impl == DetectedHere[m].implementationName
            IN /\ \E r \in Range(fileAbis) :
                    /\ r.contractName = ProxyName(impl)
                    /\ r.address = DetectedHere[m].proxyAddress
                    /\ r.abi = ArtifactAbi(impl)
               /\ \A tx \in Range(NamedCreates) :
                    tx.contractName = impl =>
                        \E r \in Range(fileAbis) :
                            /\ r.contractName = impl
                            /\ r.address = tx.contractAddress
                            /\ r.abi = ArtifactAbi(impl)
    /\ pc = "resolved" => pushed = allAbis

(***************************************************************************)
(* SpecDiscover: push up to the parse of the first trace file, with        *)
(* findBroadcastFiles run on a file system instead of answering as it may. *)
(* The broadcast directory of each script is drawn when its discovery      *)
(* starts.                                                                 *)
(***************************************************************************)
\* the broadcast directory of a script holds at most one entry
DiscoverListings == UNION {[1..n -> DirEntries] : n \in 0..1}

DiscoverInit ==
    /\ pc = "start"
    /\ options = [scriptDir |-> Null, yes |-> TRUE, label |-> Null]
    /\ config \in [scripts : {<<ScriptConfig("S1", <<>>)>>,
                              <<ScriptConfig("S1", <<>>), ScriptConfig("S2", <<>>)>>},
                   scriptDir : {Null}]
    /\ filesLeft = 0
    /\ scriptsToProcess = <<>>
    /\ sIdx = 0
    /\ nPaths = 0
    /\ bIdx = 0
    /\ broadcast = <<>>
    /\ deployments = <<>>
    /\ contractConfigMap = EmptyMap
    /\ dIdx = 0
    /\ fileAbis = <<>>
    /\ scriptAbis = <<>>
    /\ allAbis = <<>>
    /\ pIdx = 0
    /\ newCount = 0
    /\ duplicateCount = 0
    /\ calls = <<>>
    /\ pushed = <<>>
    /\ error = "none"
    /\ fpc = "start"
    /\ fFlat \in FlatFiles
    /\ fDirReadable \in BOOLEAN
    /\ fEntries \in DiscoverListings
    /\ fIdx = 0
    /\ fPaths = <<>>
    /\ fCalls = <<>>
    /\ CandIdle /\ HashIdle /\ ParseIdle /\ ScanIdle /\ LoadIdle /\ FilterIdle

\* findBroadcastFiles runs for the script the loop of push is at
DiscoverFiles ==
    /\ pc = "script"
    /\ sIdx <= Len(scriptsToProcess)
    /\ FindNext

\* a mutation of NoBroadcastFiles: an empty discovery is not noticed
NoBroadcastFilesNever(broadcastPaths) == FALSE

\* if (broadcastPaths.length === 0)
NoBroadcastFiles(broadcastPaths) == Len(broadcastPaths) = 0

\* processScript once findBroadcastFiles has returned: return [] on an empty
\* result (push goes to the next script), else enter the loop over the paths
DiscoverReturn ==
    /\ pc = "script"
    /\ sIdx <= Len(scriptsToProcess)
    /\ fpc = "done"
    /\ calls' = Append(calls, Call("findBroadcastFiles", ScriptDir, "", "",
                                   IF Len(fPaths) = 0 THEN "empty" ELSE "paths"))
    /\ IF NoBroadcastFiles(fPaths)
       THEN /\ sIdx' = sIdx + 1
            /\ fpc' = "start"
            /\ fFlat' \in FlatFiles
            /\ fDirReadable' \in BOOLEAN
            /\ fEntries' \in DiscoverListings
            /\ fIdx' = 0
            /\ fPaths' = <<>>
            /\ fCalls' = <<>>
            /\ UNCHANGED <<pc, nPaths, bIdx, scriptAbis>>
       ELSE /\ pc' = "file"
            /\ nPaths' = Len(fPaths)
            /\ bIdx' = 1
            /\ scriptAbis' = <<>>
            /\ UNCHANGED <<sIdx, findVars>>
    /\ UNCHANGED <<pushInputs, filesLeft, scriptsToProcess, fileVars, allAbis, registryVars,
                   error, candVars, hashVars, parseVars, scanVars, loadVars, filterVars>>

DiscoverNext == GetScripts \/ DiscoverFiles \/ DiscoverReturn

SpecDiscover == DiscoverInit /\ [][DiscoverNext]_vars

ParseCalls == {i \in 1..Len(calls) : calls[i].op = "parseBroadcastFile"}

\* C16: findBroadcastFiles ends with an empty list when the flat path cannot be
\* accessed and the script directory cannot be listed; after an empty discovery
\* push has not rejected, the parser has not been invoked for that script and
\* the loop is at the next script.
C16_DiscoveryMiss ==
    /\ (fpc = "done" /\ fFlat.kind = "absent" /\ ~fDirReadable) => fPaths = <<>>
    /\ pc \in {"start", "script", "file"}
    /\ error = "none"
    /\ ParseCalls = {}
    /\ \A i \in 1..Len(calls) :
        /\ calls[i].op = "findBroadcastFiles"
        /\ calls[i].script = scriptsToProcess[i]
        /\ i < Len(calls) => calls[i].result = "empty"
    /\ pc = "script" =>
        /\ sIdx = Len(calls) + 1
        /\ \A i \in 1..Len(calls) : calls[i].result = "empty"
    /\ pc = "file" =>
        /\ sIdx = Len(calls)
        /\ calls[Len(calls)].result = "paths"
        /\ nPaths = Len(fPaths)
        /\ nPaths > 0

\* the first script was skipped and the directory of the second is missing
C16_Witness ==
    /\ pc = "script"
    /\ sIdx = 2
    /\ Len(calls) = 1
    /\ calls[1].result = "empty"
    /\ fpc = "done"
    /\ fFlat.kind = "absent"
    /\ ~fDirReadable
    /\ fPaths = <<>>

(***************************************************************************)
(* SpecScan: BroadcastScannerService.scanBroadcastFolder.  The directory   *)
(* of a script is drawn when scanScript enters it.                         *)
(***************************************************************************)
MaxScripts == 2

AbsentFile == [kind |-> "absent", shapes |-> <<>>]

\* a file parseBroadcastFile throws on
InvalidFile == [kind |-> "invalid", shapes |-> <<>>]

TraceFile(shapes) == [kind |-> "trace", shapes |-> shapes]

ChainEntry(name, isDirectory, file) ==
    [name |-> name, isDirectory |-> isDirectory, file |-> file]

\* the entries of a script directory: name, kind and the run-latest.json below
ChainEntries ==
    { ChainEntry("1", TRUE, InvalidFile),
      ChainEntry("1", TRUE, TraceFile(<<CreateShape("A")>>)),
      ChainEntry("31337", TRUE, InvalidFile),
      ChainEntry("31337", TRUE, TraceFile(<<CreateShape("A"), ProxyCallShape>>)),
      ChainEntry("31337", TRUE, TraceFile(<<CreateShape("A")>>)),
      ChainEntry("1", TRUE, TraceFile(<<CreateShape("A"), ProxyCallShape, ProxyCallShape>>)),
      ChainEntry("31337", TRUE, AbsentFile),
      ChainEntry("abc", TRUE, TraceFile(<<CreateShape("B")>>)),
      ChainEntry("1", FALSE, TraceFile(<<CreateShape("B")>>)) }

ChainListings ==
    {l \in UNION {[1..n -> ChainEntries] : n \in 0..2} :
        \A i, j \in 1..Len(l) : l[i].name = l[j].name => i = j}

ScriptDirectory(flat, readable, chains) ==
    [flat |-> flat, readable |-> readable, chains |-> chains]

NoDirectory == ScriptDirectory(AbsentFile, FALSE, <<>>)

ScriptDirs ==
    {ScriptDirectory(AbsentFile, TRUE, l) : l \in ChainListings}
        \cup {NoDirectory}
        \cup {ScriptDirectory(f, TRUE, l) :
                f \in {InvalidFile, TraceFile(<<CreateShape("B")>>)},
                l \in {<<>>, <<ChainEntry("1", TRUE, TraceFile(<<CreateShape("A")>>))>>}}

FolderNames == {"S1.s.sol", "S2.s.sol", "S3.s.sol", "cache"}

\* entry.name.endsWith('.s.sol')
EndsWithSol(name) == name \in {"S1.s.sol", "S2.s.sol", "S3.s.sol"}

FolderEntries == [name : FolderNames, isDirectory : BOOLEAN]

FolderListings ==
    {l \in UNION {[1..n -> FolderEntries] : n \in 0..MaxScripts} :
        \A i, j \in 1..Len(l) : l[i].name = l[j].name => i = j}

\* scanScript returning null
NoDiscovery == [scriptName |-> Null, contracts |-> <<>>]

ParseCall(script, name, result) == [script |-> script, name |-> name, result |-> result]

\* a mutation of ProcessedContracts: a trace that fails to parse empties the set
ProcessedContractsDropped(contracts, file) ==
    IF file.kind = "trace" THEN ScanContracts(contracts, MkTrace(file.shapes)) ELSE <<>>

\* processBroadcastFile: contracts after the file; the catch adds nothing
ProcessedContracts(contracts, file) ==
    IF file.kind = "trace" THEN ScanContracts(contracts, MkTrace(file.shapes)) ELSE contracts

\* processBroadcastFile: proxyMappings after the file
ProcessedMappings(mappings, file) ==
    IF file.kind = "trace" THEN ScanMappings(mappings, MkTrace(file.shapes)) ELSE mappings

ParseResult(file) == IF file.kind = "trace" THEN "ok" ELSE "thrown"

\* Array.from(contracts).map(...)
ContractConfigsOf(contracts, mappings) ==
    [i \in 1..Len(contracts) |->
        IF contracts[i] \in DOMAIN mappings /\ Truthy(mappings[contracts[i]])
        THEN ProxySelector(contracts[i], mappings[contracts[i]])
        ELSE Selector(contracts[i])]

ScanInit ==
    /\ kpc = "start"
    /\ kFolder \in [accessible : BOOLEAN, readable : BOOLEAN, entries : FolderListings]
    /\ kEntry = 0
    /\ kDir = NoDirectory
    /\ kChain = 0
    /\ kContracts = <<>>
    /\ kMappings = EmptyMap
    /\ kCalls = <<>>
    /\ kReturn = NoDiscovery
    /\ kScanned = <<>>
    /\ kScripts = <<>>

\* await this.fs.access(broadcastDir)
ScanAccess ==
    /\ kpc = "start"
    /\ kpc' = IF kFolder.accessible THEN "readdir" ELSE "done"
    /\ UNCHANGED <<kFolder, kEntry, kDir, kChain, kContracts, kMappings, kCalls, kReturn,
                   kScanned, kScripts, candVars, hashVars, parseVars, findVars, pushVars, loadVars, filterVars>>

\* await this.fs.readdir(broadcastDir, { withFileTypes: true })
ScanReaddir ==
    /\ kpc = "readdir"
    /\ IF kFolder.readable
       THEN kpc' = "folder" /\ kEntry' = 1
       ELSE kpc' = "done" /\ UNCHANGED kEntry
    /\ UNCHANGED <<kFolder, kDir, kChain, kContracts, kMappings, kCalls, kReturn,
                   kScanned, kScripts, candVars, hashVars, parseVars, findVars, pushVars, loadVars, filterVars>>

\* for (const entry of entries): scanScript is entered for a script directory
ScanEntry ==
    /\ kpc = "folder"
    /\ IF kEntry > Len(kFolder.entries)
       THEN /\ kpc' = "done"
            /\ UNCHANGED <<kEntry, kDir, kContracts, kMappings, kCalls, kScanned>>
       ELSE LET entry == kFolder.entries[kEntry]
            IN IF entry.isDirectory /\ EndsWithSol(entry.name)
               THEN /\ kpc' = "flat"
                    /\ kDir' \in ScriptDirs
                    /\ kContracts' = <<>>
                    /\ kMappings' = EmptyMap
                    /\ kCalls' = <<>>
                    /\ kScanned' = Append(kScanned, entry.name)
                    /\ UNCHANGED kEntry
               ELSE /\ kEntry' = kEntry + 1
                    /\ UNCHANGED <<kpc, kDir, kContracts, kMappings, kCalls, kScanned>>
    /\ UNCHANGED <<kFolder, kChain, kReturn, kScripts,
                   candVars, hashVars, parseVars, findVars, pushVars, loadVars, filterVars>>

\* scanScript: the direct path, else the listing of the script directory
ScanFlat ==
    /\ kpc = "flat"
    /\ IF kDir.flat.kind # "absent"
       THEN /\ kContracts' = ProcessedContracts(kContracts, kDir.flat)
            /\ kMappings' = ProcessedMappings(kMappings, kDir.flat)
            /\ kCalls' = Append(kCalls, ParseCall(kFolder.entries[kEntry].name,
                                                  DirectPath, ParseResult(kDir.flat)))
            /\ kpc' = "build"
            /\ UNCHANGED <<kChain, kReturn>>
       ELSE IF kDir.readable
       THEN /\ kpc' = "chains"
            /\ kChain' = 1
            /\ UNCHANGED <<kContracts, kMappings, kCalls, kReturn>>
       ELSE /\ kpc' = "returned"
            /\ kReturn' = NoDiscovery
            /\ UNCHANGED <<kChain, kContracts, kMappings, kCalls>>
    /\ UNCHANGED <<kFolder, kEntry, kDir, kScanned, kScripts,
                   candVars, hashVars, parseVars, findVars, pushVars, loadVars, filterVars>>

\* scanScript: for (const entry of entries)
ScanChain ==
    /\ kpc = "chains"
    /\ IF kChain > Len(kDir.chains)
       THEN /\ kpc' = "build"
            /\ UNCHANGED <<kChain, kContracts, kMappings, kCalls>>
       ELSE LET entry == kDir.chains[kChain]
            IN /\ kChain' = kChain + 1
               /\ UNCHANGED kpc
               /\ IF entry.isDirectory /\ IsNumericName(entry.name)
                     /\ entry.file.kind # "absent"
                  THEN /\ kContracts' = ProcessedContracts(kContracts, entry.file)
                       /\ kMappings' = ProcessedMappings(kMappings, entry.file)
                       /\ kCalls' = Append(kCalls,
                                           ParseCall(kFolder.entries[kEntry].name,
                                                     ChainIdPath(entry.name),
                                                     ParseResult(entry.file)))
                  ELSE UNCHANGED <<kContracts, kMappings, kCalls>>
    /\ UNCHANGED <<kFolder, kEntry, kDir, kReturn, kScanned, kScripts,
                   candVars, hashVars, parseVars, findVars, pushVars, loadVars, filterVars>>

\* scanScript: null for an empty set, else the contract configs
ScanBuild ==
    /\ kpc = "build"
    /\ kpc' = "returned"
    /\ kReturn' = IF Len(kContracts) = 0
                  THEN NoDiscovery
                  ELSE [scriptName |-> kFolder.entries[kEntry].name,
                        contracts |-> ContractConfigsOf(kContracts, kMappings)]
    /\ UNCHANGED <<kFolder, kEntry, kDir, kChain, kContracts, kMappings, kCalls,
                   kScanned, kScripts, candVars, hashVars, parseVars, findVars, pushVars, loadVars, filterVars>>

\* if (scriptDiscovery) scripts.push(scriptDiscovery)
ScanScriptReturn ==
    /\ kpc = "returned"
    /\ kpc' = "folder"
    /\ kEntry' = kEntry + 1
    /\ kScripts' = IF kReturn # NoDiscovery THEN Append(kScripts, kReturn) ELSE kScripts
    /\ UNCHANGED <<kFolder, kDir, kChain, kContracts, kMappings, kCalls, kReturn,
                   kScanned, candVars, hashVars, parseVars, findVars, pushVars, loadVars, filterVars>>

ScanNext ==
    \/ ScanAccess
    \/ ScanReaddir
    \/ ScanEntry
    \/ ScanFlat
    \/ ScanChain
    \/ ScanBuild
    \/ ScanScriptReturn

ScanStart == ScanInit /\ CandIdle /\ HashIdle /\ ParseIdle /\ FindIdle /\ PushIdle /\ LoadIdle /\ FilterIdle

SpecScan == ScanStart /\ [][ScanNext]_vars

\* the trace files scanScript opens in a script directory, in order
ScanPlan(dir) ==
    IF dir.flat.kind # "absent" THEN <<[name |-> DirectPath, file |-> dir.flat]>>
    ELSE IF ~dir.readable THEN <<>>
    ELSE LET opened == SelectSeq(dir.chains,
                                 LAMBDA e : e.isDirectory /\ IsNumericName(e.name)
                                            /\ e.file.kind # "absent")
         IN [i \in 1..Len(opened) |->
                [name |-> ChainIdPath(opened[i].name), file |-> opened[i].file]]

\* the contract names of the traces of the plan that parse, first occurrence first
RECURSIVE PlanContracts(_, _, _)
PlanContracts(plan, i, contracts) ==
    IF i > Len(plan) THEN contracts
    ELSE PlanContracts(plan, i + 1,
                       IF plan[i].file.kind = "trace"
                       THEN ScanContracts(contracts, MkTrace(plan[i].file.shapes))
                       ELSE contracts)

ScriptEntries(n) ==
    SelectSeq(SubSeq(kFolder.entries, 1, n),
              LAMBDA e : e.isDirectory /\ EndsWithSol(e.name))

\* C17: scanBroadcastFolder does not raise; a script's result is made of the
\* traces that parse, a trace that fails to parse adds no contract, every trace
\* file of the script after it is still handed to the parser, and scanScript is
\* still called for every later script directory.
C17_ScanTolerates ==
    /\ kpc \in {"start", "readdir", "folder", "flat", "chains", "build", "returned", "done"}
    /\ kpc \in {"flat", "chains", "build", "returned"} =>
        /\ \A i \in 1..Len(kCalls) :
            /\ kCalls[i].name = ScanPlan(kDir)[i].name
            /\ kCalls[i].result = ParseResult(ScanPlan(kDir)[i].file)
        /\ [i \in 1..Len(kScanned) |-> [name |-> kScanned[i], isDirectory |-> TRUE]]
                = ScriptEntries(kEntry)
    /\ kpc = "returned" =>
        /\ Len(kCalls) = Len(ScanPlan(kDir))
        /\ [i \in 1..Len(kReturn.contracts) |-> kReturn.contracts[i].name]
                = PlanContracts(ScanPlan(kDir), 1, <<>>)
    /\ (kpc = "done" /\ kFolder.accessible /\ kFolder.readable) =>
        [i \in 1..Len(kScanned) |-> [name |-> kScanned[i], isDirectory |-> TRUE]]
            = ScriptEntries(Len(kFolder.entries))

\* the second script is scanned after a first script that gave no discovery; its
\* first chain file failed to parse and its second one gave a contract
C17_Witness ==
    /\ kpc = "returned"
    /\ Len(kScanned) = 2
    /\ kScripts = <<>>
    /\ Len(kCalls) = 2
    /\ kCalls[1].result = "thrown"
    /\ kCalls[2].result = "ok"
    /\ kReturn # NoDiscovery

\* the scripts whose discovery was asked for, in call order
DiscoveredScripts ==
    LET finds == SelectSeq(calls, LAMBDA c : c.op = "findBroadcastFiles")
    IN [i \in 1..Len(finds) |-> finds[i].script]

SelectedScripts ==
    IF options.scriptDir # Null THEN <<options.scriptDir>>
    ELSE IF config.scripts # <<>>
    THEN [i \in 1..Len(config.scripts) |-> config.scripts[i].name]
    ELSE IF config.scriptDir # Null THEN <<config.scriptDir>>
    ELSE <<>>

NothingSelected ==
    options.scriptDir = Null /\ config.scripts = <<>> /\ config.scriptDir = Null

\* C18: the scripts worked on are the --script value alone, else the names of
\* config.scripts in order, else the legacy config.scriptDir, each discovered
\* once in that order; with none of them set push rejects with 'Script
\* directory is required' and no dependency has been called.
C18_ScriptSelection ==
    /\ (pc # "start" /\ NothingSelected) =>
        /\ pc = "rejected"
        /\ error = ScriptDirRequired
        /\ calls = <<>>
        /\ pushed = <<>>
    /\ (pc # "start" /\ ~NothingSelected) =>
        /\ error # ScriptDirRequired
        /\ scriptsToProcess = SelectedScripts
        /\ Len(DiscoveredScripts) <= Len(SelectedScripts)
        /\ \A i \in 1..Len(DiscoveredScripts) : DiscoveredScripts[i] = SelectedScripts[i]
        /\ \A i \in 1..Len(calls) : calls[i].script \in Range(SelectedScripts) \cup {""}
        /\ pc \in {"resolved", "exited", "confirm", "push"} =>
                DiscoveredScripts = SelectedScripts

\* --script S1 beside two configured scripts and a legacy scriptDir: S1 alone
\* was worked on and its records were published
C18_Witness ==
    /\ pc = "resolved"
    /\ options.scriptDir = "S1"
    /\ Len(config.scripts) = 2
    /\ config.scripts[1].name = "S2"
    /\ config.scriptDir = "S2"
    /\ DiscoveredScripts = <<"S1">>
    /\ pushed # <<>>

(***************************************************************************)
(* SpecLoad: loadConfig.  An object is a function from its own property    *)
(* names to their values; a property may be present with the value         *)
(* undefined (Null).                                                       *)
(***************************************************************************)
Settings == {"apiKey", "outDir"}

\* obj[key]
Get(obj, key) == IF key \in DOMAIN obj THEN obj[key] ELSE Null

\* { ...a, ...b }: every own property of b is copied, undefined values included
Spread(a, b) ==
    [key \in DOMAIN a \cup DOMAIN b |-> IF key \in DOMAIN b THEN b[key] ELSE a[key]]

\* a || b
Or(a, b) == IF Truthy(a) THEN a ELSE b

\* process.env
Environments ==
    [ABI_REGISTRY_API_KEY : {Null, "", "k1"},
     ABIREGISTRY_API_KEY : {Null, "k2"},
     API_KEY : {Null, "k3"},
     ABI_REGISTRY_OUT_DIR : {Null, "d1"},
     ABIREGISTRY_OUT_DIR : {Null, "d2"}]

\* loadConfigFile: {} without a file or with a malformed one, else its JSON
FileConfigs ==
    { EmptyMap,
      [key \in {"apiKey"} |-> "fileKey"],
      [key \in {"outDir"} |-> "fileDir"],
      [key \in Settings |-> IF key = "apiKey" THEN "fileKey" ELSE "fileDir"] }

\* the overrides of the callers: none, the --out option absent or given, a key
OverrideConfigs ==
    { EmptyMap,
      [key \in {"outDir"} |-> Null],
      [key \in {"outDir"} |-> "flagDir"],
      [key \in {"apiKey"} |-> "flagKey"],
      [key \in Settings |-> IF key = "apiKey" THEN "flagKey" ELSE "flagDir"] }

loadEnvConfig(env) ==
    [key \in Settings |->
        IF key = "apiKey"
        THEN Or(Or(env.ABI_REGISTRY_API_KEY, env.ABIREGISTRY_API_KEY), env.API_KEY)
        ELSE Or(env.ABI_REGISTRY_OUT_DIR, env.ABIREGISTRY_OUT_DIR)]

loadConfig(overrides, env, fileConfig) ==
    Spread(Spread(fileConfig, loadEnvConfig(env)), overrides)

LoadInit ==
    /\ lpc = "start"
    /\ lOverrides \in OverrideConfigs
    /\ lEnv \in Environments
    /\ lFile \in FileConfigs
    /\ lConfig = EmptyMap

LoadConfig ==
    /\ lpc = "start"
    /\ lpc' = "done"
    /\ lConfig' = loadConfig(lOverrides, lEnv, lFile)
    /\ UNCHANGED <<lOverrides, lEnv, lFile, candVars, hashVars, parseVars, findVars,
                   pushVars, scanVars, filterVars>>

LoadNext == LoadConfig

LoadStart ==
    LoadInit /\ CandIdle /\ HashIdle /\ ParseIdle /\ FindIdle /\ PushIdle /\ ScanIdle
        /\ FilterIdle

SpecLoad == LoadStart /\ [][LoadNext]_vars

\* the environment variables of a setting, first name first
EnvNames(key) ==
    IF key = "apiKey"
    THEN <<"ABI_REGISTRY_API_KEY", "ABIREGISTRY_API_KEY", "API_KEY">>
    ELSE <<"ABI_REGISTRY_OUT_DIR", "ABIREGISTRY_OUT_DIR">>

EnvSets(key) == \E i \in 1..Len(EnvNames(key)) : Truthy(lEnv[EnvNames(key)[i]])

EnvValue(key) ==
    LET names == EnvNames(key)
        first == CHOOSE i \in 1..Len(names) :
                    /\ Truthy(lEnv[names[i]])
                    /\ \A j \in 1..(i - 1) : ~Truthy(lEnv[names[j]])
    IN lEnv[names[first]]

\* the value of the highest source that sets the setting, undefined with none
PriorityValue(key) ==
    IF Get(lOverrides, key) # Null THEN Get(lOverrides, key)
    ELSE IF EnvSets(key) THEN EnvValue(key)
    ELSE Get(lFile, key)

\* C19: every setting of the loaded configuration has the value of the highest
\* source that sets it, in the order override, environment, config file.
C19_ConfigPriority ==
    lpc = "done" => \A key \in Settings : Get(lConfig, key) = PriorityValue(key)

(***************************************************************************)
(* SpecNearest: SpecCand on traces whose CALLs may create two contracts.   *)
(***************************************************************************)
\* a CALL whose additionalContracts holds these creations
CallShape(nested) == [transactionType |-> "CALL", contractName |-> Null, nested |-> nested]

SmallUnnamed == [contractName |-> Null, initCodeLen |-> ProxyInitCodeThreshold - 1]

LargeUnnamed == [contractName |-> Null, initCodeLen |-> ProxyInitCodeThreshold]

\* a nested creation with a contract name and a small init code
SmallNamed == [contractName |-> "P", initCodeLen |-> ProxyInitCodeThreshold - 1]

NearestShapes ==
    { CreateShape("A"), CreateShape("B"), CreateShape(Null),
      [transactionType |-> "CREATE", contractName |-> "A", nested |-> <<SmallUnnamed>>],
      CallShape(<<>>),
      CallShape(<<SmallUnnamed, SmallUnnamed>>),
      CallShape(<<SmallUnnamed, LargeUnnamed>>),
      CallShape(<<SmallNamed, SmallUnnamed>>) }

NearestInit ==
    /\ cpc = "parsed"
    /\ cTrace \in {MkTrace(s) : s \in UNION {[1..n -> NearestShapes] : n \in 0..MaxTx}}
    /\ cDetected = <<>>
    /\ cDeployments = <<>>
    /\ cConfigMap = EmptyMap
    /\ cContracts = <<>>
    /\ cMappings = EmptyMap

NearestStart ==
    NearestInit /\ HashIdle /\ ParseIdle /\ FindIdle /\ PushIdle /\ ScanIdle /\ LoadIdle /\ FilterIdle

SpecNearest == NearestStart /\ [][CandNext]_vars

NamedCreate(j) ==
    cTrace[j].transactionType = "CREATE" /\ cTrace[j].contractName \notin {Null, ""}

\* the candidates of the transaction at i: unnamed creations with a small init code
CandidatesAt(i) ==
    SelectSeq(cTrace[i].additionalContracts,
              LAMBDA c : c.contractName \in {Null, ""}
                         /\ c.initCodeLen < ProxyInitCodeThreshold)

MappingsAt(i) == SelectSeq(cDetected, LAMBDA p : p.deploymentIndex = i - 1)

\* C20: every mapping of a CALL carries the name of the named CREATE nearest
\* before that CALL, each candidate of the CALL has one such mapping, and a CALL
\* with no named CREATE before it has none.
C20_NearestImplementation ==
    cpc # "parsed" =>
        /\ \A k \in 1..Len(cDetected) :
            LET i == cDetected[k].deploymentIndex + 1
            IN /\ i \in 1..Len(cTrace)
               /\ cTrace[i].transactionType = "CALL"
               /\ \E j \in 1..(i - 1) :
                    /\ NamedCreate(j)
                    /\ \A later \in (j + 1)..(i - 1) : ~NamedCreate(later)
                    /\ cDetected[k].implementationName = cTrace[j].contractName
        /\ \A i \in 1..Len(cTrace) :
            IF cTrace[i].transactionType = "CALL" /\ \E j \in 1..(i - 1) : NamedCreate(j)
            THEN /\ Len(MappingsAt(i)) = Len(CandidatesAt(i))
                 /\ \A n \in 1..Len(MappingsAt(i)) :
                        /\ MappingsAt(i)[n].proxyAddress = CandidatesAt(i)[n].address
                        /\ MappingsAt(i)[n].implementationName
                                = MappingsAt(i)[1].implementationName
            ELSE MappingsAt(i) = <<>>

\* CREATE A, CREATE B, then a CALL creating two candidates: both are mapped to B
C20_Witness ==
    /\ cpc = "done"
    /\ Len(cTrace) = 3
    /\ cTrace[1].contractName = "A"
    /\ cTrace[2].contractName = "B"
    /\ Len(cDetected) = 2
    /\ cDetected[1].implementationName = "B"
    /\ cDetected[2].implementationName = "B"
    /\ cDetected[1].proxyAddress # cDetected[2].proxyAddress

\* address and deploymentIndex of the mappings due from transaction i onwards
RECURSIVE CandidatePairs(_)
CandidatePairs(i) ==
    IF i > Len(cTrace) THEN <<>>
    ELSE (IF cTrace[i].transactionType = "CALL" /\ \E j \in 1..(i - 1) : NamedCreate(j)
          THEN [n \in 1..Len(CandidatesAt(i)) |-> <<CandidatesAt(i)[n].address, i - 1>>]
          ELSE <<>>) \o CandidatePairs(i + 1)

\* C21: the mappings are, in trace order, one per candidate of each CALL that
\* has a named CREATE before it, with the candidate's address and the CALL's
\* index; a CALL with no named CREATE before it gives none.
C21_MappingCount ==
    cpc # "parsed" =>
        [k \in 1..Len(cDetected) |->
            <<cDetected[k].proxyAddress, cDetected[k].deploymentIndex>>] = CandidatePairs(1)

\* a CALL with two candidates and no named CREATE before it, then CREATE A and
\* a second such CALL: the two mappings are those of the second CALL
C21_Witness ==
    /\ cpc = "done"
    /\ Len(cTrace) = 3
    /\ cTrace[1].transactionType = "CALL"
    /\ Len(CandidatesAt(1)) = 2
    /\ cTrace[2].contractName = "A"
    /\ Len(CandidatesAt(3)) = 2
    /\ Len(cDetected) = 2
    /\ cDetected[1].deploymentIndex = 2
    /\ cDetected[2].deploymentIndex = 2

ProxyAddresses == {cDetected[k].proxyAddress : k \in 1..Len(cDetected)}

\* C22: a proxyAddress is the address of a nested creation of a CALL that has no
\* name and an init code below the threshold; a nested creation that has a
\* name, an init code at or above the threshold or hangs off a CREATE is never
\* a proxyAddress.
C22_CandidateFilter ==
    cpc # "parsed" =>
        /\ \A k \in 1..Len(cDetected) :
            \E i \in 1..Len(cTrace) :
                \E n \in 1..Len(cTrace[i].additionalContracts) :
                    LET c == cTrace[i].additionalContracts[n]
                    IN /\ c.address = cDetected[k].proxyAddress
                       /\ cTrace[i].transactionType = "CALL"
                       /\ c.contractName \in {Null, ""}
                       /\ c.initCodeLen < 500
        /\ \A i \in 1..Len(cTrace) :
            \A n \in 1..Len(cTrace[i].additionalContracts) :
                LET c == cTrace[i].additionalContracts[n]
                IN (\/ cTrace[i].transactionType # "CALL"
                    \/ c.contractName \notin {Null, ""}
                    \/ c.initCodeLen >= 500) => c.address \notin ProxyAddresses

\* CREATE A with an unnamed small nested creation, a CALL with a named and an
\* unnamed small one, a CALL with a small and a large one: two mappings
C22_Witness ==
    /\ cpc = "done"
    /\ Len(cTrace) = 3
    /\ cTrace[1].transactionType = "CREATE"
    /\ Len(cTrace[1].additionalContracts) = 1
    /\ Len(cTrace[2].additionalContracts) = 2
    /\ Len(cTrace[3].additionalContracts) = 2
    /\ cTrace[2].additionalContracts[1].contractName = "P"
    /\ cTrace[3].additionalContracts[2].initCodeLen = ProxyInitCodeThreshold
    /\ ProxyAddresses = {cTrace[2].additionalContracts[2].address,
                         cTrace[3].additionalContracts[1].address}

\* C23: once parseBroadcastFile has thrown, push has rejected with the parser's
\* error, no dependency is called afterwards and nothing has been pushed.
C23_MalformedTraceFatal ==
    \A i \in 1..Len(calls) :
        (calls[i].op = "parseBroadcastFile" /\ calls[i].result = "thrown") =>
            /\ i = Len(calls)
            /\ pc = "rejected"
            /\ error = ParserError
            /\ pushed = <<>>
            /\ PushCalls = {}

\* the first of two trace files of the first of two scripts failed to parse
C23_Witness ==
    /\ pc = "rejected"
    /\ error = ParserError
    /\ Len(scriptsToProcess) = 2
    /\ sIdx = 1
    /\ nPaths = 2
    /\ bIdx = 1
    /\ calls[Len(calls)].op = "parseBroadcastFile"
    /\ calls[Len(calls)].result = "thrown"

\* the records collected so far: push's list, processScript's, processBroadcastFile's
Collected == allAbis \o scriptAbis \o fileAbis

\* the loader calls that returned an ABI, in call order
OkLoads == SelectSeq(calls, LAMBDA c : c.op = "loadContractAbi" /\ c.result = "ok")

\* the calls made on behalf of a script, in call order
ScriptCalls == SelectSeq(calls, LAMBDA c : c.script # "")

ScriptIndex(name) == CHOOSE k \in 1..Len(scriptsToProcess) : scriptsToProcess[k] = name

\* the candidates of the trace file at hand that have a name, in list order
NamedDeployments(n) ==
    SelectSeq(SubSeq(deployments, 1, n), LAMBDA d : d.contractName \notin {Null, ""})

\* C24: the collected records are those of the successful loads in call order;
\* the calls for a script all come before the calls for the next configured
\* script and none is made for a script the loop has not reached; the loads of
\* a trace file follow its candidate list.
C24_SequentialOrder ==
    /\ Len(Collected) = Len(OkLoads)
    /\ \A n \in 1..Len(Collected) : Collected[n].contractName = OkLoads[n].name
    /\ \A i \in 1..Len(ScriptCalls) :
        /\ ScriptCalls[i].script \in Range(scriptsToProcess)
        /\ ScriptIndex(ScriptCalls[i].script) <= sIdx
        /\ \A j \in i..Len(ScriptCalls) :
            ScriptIndex(ScriptCalls[i].script) <= ScriptIndex(ScriptCalls[j].script)
    /\ pc = "deployment" =>
        /\ Len(FileLoads) <= Len(NamedDeployments(Len(deployments)))
        /\ \A n \in 1..Len(FileLoads) :
            FileLoads[n].name = NamedDeployments(Len(deployments))[n].contractName
        /\ [n \in 1..Len(fileAbis) |-> fileAbis[n].contractName]
            = [n \in 1..Len(fileAbis) |-> NamedDeployments(dIdx - 1)[n].contractName]

\* two scripts, each with one trace file: the records of S2 come after those of
\* S1, which has two
C24_Witness ==
    /\ pc = "confirm"
    /\ scriptsToProcess = <<"S1", "S2">>
    /\ Len(allAbis) = 3
    /\ OkLoads[1].script = "S1"
    /\ OkLoads[2].script = "S1"
    /\ OkLoads[3].script = "S2"
    /\ allAbis[1].contractName # allAbis[2].contractName

\* the client.push calls, in call order
RegistryCalls == SelectSeq(calls, LAMBDA c : c.op = "push")

\* C25: while pushToRegistry runs the records handed to client.push are the
\* collected records up to the loop's position, one call each, and the two
\* counters add up to the calls that returned; when push resolves every
\* collected record has been handed over once, in order, equal hashes included.
C25_PushedExactlyOnce ==
    /\ pc \in {"push", "resolved"} =>
        /\ pushed = SubSeq(allAbis, 1, pIdx - 1)
        /\ Len(RegistryCalls) = Len(pushed)
        /\ \A n \in 1..Len(pushed) :
            RegistryCalls[n].name = allAbis[n].contractName /\ RegistryCalls[n].result = "ok"
        /\ newCount + duplicateCount = Len(pushed)
    /\ pc = "resolved" =>
        /\ pushed = allAbis
        /\ newCount + duplicateCount = Len(allAbis)

\* push resolved after two records with the same abiHash were both handed over,
\* one answered as new and one as duplicate
C25_Witness ==
    /\ pc = "resolved"
    /\ Len(allAbis) = 2
    /\ allAbis[1].abiHash = allAbis[2].abiHash
    /\ pushed = allAbis
    /\ newCount = 1
    /\ duplicateCount = 1

(***************************************************************************)
(* SpecFilter: filterDeployments applied to a candidate list, then to its  *)
(* own result.                                                             *)
(***************************************************************************)
\* candidate lists: CREATE transactions, named or not, at distinct addresses
CandidateLists ==
    {MkTrace(s) : s \in UNION {[1..n -> {CreateShape(name) : name \in ContractNames \cup {Null}}] :
                                n \in 0..MaxTx}}

FilterInit ==
    /\ tpc = "start"
    /\ tDeployments \in CandidateLists
    /\ tContractConfigs \in ContractLists \cup {<<Selector("")>>}
    /\ tFiltered = <<>>
    /\ tRefiltered = <<>>

FilterOnce ==
    /\ tpc = "start"
    /\ tpc' = "once"
    /\ tFiltered' = filterDeployments(tDeployments, tContractConfigs)
    /\ UNCHANGED <<tDeployments, tContractConfigs, tRefiltered, candVars, hashVars,
                   parseVars, findVars, pushVars, scanVars, loadVars>>

FilterTwice ==
    /\ tpc = "once"
    /\ tpc' = "twice"
    /\ tRefiltered' = filterDeployments(tFiltered, tContractConfigs)
    /\ UNCHANGED <<tDeployments, tContractConfigs, tFiltered, candVars, hashVars,
                   parseVars, findVars, pushVars, scanVars, loadVars>>

FilterNext == FilterOnce \/ FilterTwice

FilterStart ==
    FilterInit /\ CandIdle /\ HashIdle /\ ParseIdle /\ FindIdle /\ PushIdle /\ ScanIdle
        /\ LoadIdle

SpecFilter == FilterStart /\ [][FilterNext]_vars

\* C26: filtering the filtered list again by the same allow-list gives the same
\* list, and the filtered list holds candidates of the input, each once, in the
\* input's order.
C26_FilterIdempotent ==
    /\ tpc = "twice" => tRefiltered = tFiltered
    /\ tpc # "start" =>
        /\ \A n \in 1..Len(tFiltered) : tFiltered[n] \in Range(tDeployments)
        /\ \A n, k \in 1..Len(tFiltered) :
            n < k => tFiltered[n].contractAddress < tFiltered[k].contractAddress

\* A, B, A filtered by an allow-list of A: two candidates stay, again on the
\* second pass
C26_Witness ==
    /\ tpc = "twice"
    /\ Len(tDeployments) = 3
    /\ tContractConfigs = <<Selector("A")>>
    /\ Len(tFiltered) = 2
    /\ tRefiltered = tFiltered

\* the contract names of a ScriptDiscovery, in order
DiscoveryNames(discovery) ==
    [n \in 1..Len(discovery.contracts) |-> discovery.contracts[n].name]

NoRepeat(seq) == \A n, k \in 1..Len(seq) : seq[n] = seq[k] => n = k

\* C27: no contract name appears twice in the contracts of a script, neither
\* in what scanScript returns nor in the scripts scanBroadcastFolder collects.
C27_ScannerDeduplicates ==
    /\ kpc = "returned" => NoRepeat(DiscoveryNames(kReturn))
    /\ \A n \in 1..Len(kScripts) : NoRepeat(DiscoveryNames(kScripts[n]))

\* two chain files of one script both deploy A: the script lists A once
C27_Witness ==
    /\ kpc = "returned"
    /\ Len(kDir.chains) = 2
    /\ kDir.chains[1].file = TraceFile(<<CreateShape("A")>>)
    /\ kDir.chains[2].file = TraceFile(<<CreateShape("A")>>)
    /\ Len(kCalls) = 2
    /\ DiscoveryNames(kReturn) = <<"A">>

\* C30: the contracts of a script never hold both a proxy entry IProxy with
\* proxy.implementation I and a standalone entry named I.
C30_ScannerSupersession ==
    kpc = "returned" =>
        \A n, k \in 1..Len(kReturn.contracts) :
            ~(/\ kReturn.contracts[n].hasProxy
              /\ kReturn.contracts[n].name = ProxyName(kReturn.contracts[n].implementation)
              /\ kReturn.contracts[k].name = kReturn.contracts[n].implementation)

ResolveOps == {"findBroadcastFiles", "parseBroadcastFile", "loadContractAbi"}

\* C28: every discovery, parse and load call comes before every client.push
\* call, and when client.push has been called every script has been through
\* its discovery and the loop over the scripts is over.
C28_ResolveThenPush ==
    /\ \A i, j \in 1..Len(calls) :
        (calls[i].op = "push" /\ calls[j].op \in ResolveOps) => j < i
    /\ PushCalls # {} =>
        /\ sIdx = Len(scriptsToProcess) + 1
        /\ DiscoveredScripts = scriptsToProcess
        /\ scriptAbis = <<>>

\* two scripts, each with a parsed trace and a loaded ABI, then two pushes
C28_Witness ==
    /\ pc = "resolved"
    /\ scriptsToProcess = <<"S1", "S2">>
    /\ Len(pushed) = 2
    /\ \E i, j \in LoadCalls : calls[i].script = "S1" /\ calls[j].script = "S2"
    /\ Cardinality(PushCalls) = 2

\* the records client.push returned for
Registered ==
    LET done == {n \in 1..Len(RegistryCalls) : RegistryCalls[n].result = "ok"}
    IN [n \in 1..Cardinality(done) |-> pushed[n]]

\* C29: a client.push call that failed is the last call made; push has then
\* rejected with 'Failed to push ABIs: <cause>', and the records handed over
\* before it, all answered, are a strict prefix of the collected records.
C29_PushFailureMidway ==
    \A n \in 1..Len(RegistryCalls) :
        RegistryCalls[n].result = "thrown" =>
            /\ n = Len(RegistryCalls)
            /\ calls[Len(calls)] = RegistryCalls[n]
            /\ pc = "rejected"
            /\ error = "Failed to push ABIs: " \o RegistryError
            /\ \A k \in 1..(n - 1) : RegistryCalls[k].result = "ok"
            /\ Registered = SubSeq(allAbis, 1, n - 1)
            /\ n - 1 < Len(allAbis)
            /\ newCount + duplicateCount = n - 1

\* the second of three records failed: the first stays pushed, the third is
\* never handed over
C29_Witness ==
    /\ pc = "rejected"
    /\ Len(allAbis) = 3
    /\ Len(RegistryCalls) = 2
    /\ RegistryCalls[1].result = "ok"
    /\ RegistryCalls[2].result = "thrown"
    /\ Registered = <<allAbis[1]>>
====
